---- MODULE Spec2Model ----
(***************************************************************************)
(* The lcmd_lpk_build resource of terraform-provider-lcmd: the LPK build   *)
(* pipeline (resolve source, render templates, read manifest, build or     *)
(* cache lookup, publish) and its Create / Update / Delete handlers.       *)
(*                                                                         *)
(* Every handler is one action.  The filesystem, the persisted resource    *)
(* state and a summary of the last handler call (what it returned, which   *)
(* external calls it made and in which order) are the state.  Everything   *)
(* outside the provider (git, the build command, the registry, the source  *)
(* tree's author) is drawn with \E.                                        *)
(***************************************************************************)
EXTENDS Naturals, Sequences, FiniteSets, TLC

VARIABLES
    fs,      \* directory -> tree: the local source directory and staging directories
    state,   \* the persisted state of the lcmd_lpk_build resource
    last     \* summary of the last handler call

vars == <<fs, state, last>>

----------------------------------------------------------------------------
(* Bounds of the model.                                                    *)

\* Distinct byte contents a build command may give its .lpk output.
MaxContent == 2

----------------------------------------------------------------------------
(* Strings.  A types.String is a string or null; file names and the        *)
(* template extension are sequences of one-character strings so that       *)
(* HasSuffix and TrimSuffix act on characters.                             *)

Null == "<null>"

IsNull(s) == s = Null

ValueString(s) == IF s = Null THEN "" ELSE s

HasSuffix(s, suffix) ==
    /\ Len(s) >= Len(suffix)
    /\ SubSeq(s, Len(s) - Len(suffix) + 1, Len(s)) = suffix

TrimSuffix(s, suffix) ==
    IF HasSuffix(s, suffix) THEN SubSeq(s, 1, Len(s) - Len(suffix)) ELSE s

defaultTemplateExtension == <<".", "t", "m", "p", "l">>

\* filepath.Join(dir, name) for a clean dir and a plain name.
Join(dir, name) == dir \o "/" \o name

\* fmt.Sprintf("%s-%s-%s", a, b, c)
Sprintf3(a, b, c) == a \o "-" \o b \o "-" \o c

----------------------------------------------------------------------------
(* File contents.                                                          *)

\* The bytes of lzc-manifest.yml: a YAML document with the three keys and
\* `pad`, the bytes that are neither name nor version (comments, other keys),
\* or a document that is not YAML.
ManifestBytes(wellformed, name, version, appid, pad) ==
    [present |-> TRUE, wellformed |-> wellformed, name |-> name,
     version |-> version, appid |-> appid, pad |-> pad]

NoManifest ==
    [present |-> FALSE, wellformed |-> FALSE, name |-> "", version |-> "",
     appid |-> "", pad |-> ""]

M1 == ManifestBytes(TRUE, "app", "1", "a1", "")
M2 == ManifestBytes(TRUE, "app", "2", "a1", "")
M3 == ManifestBytes(TRUE, "web", "1", "a1", "")
MNoName == ManifestBytes(TRUE, "", "1", "a1", "")
MNoVersion == ManifestBytes(TRUE, "app", "", "a1", "")
MMalformed == ManifestBytes(FALSE, "", "", "", ":")
MNoAppID == ManifestBytes(TRUE, "app", "1", "", "")

\* What the author of the local source tree may leave in lzc-manifest.yml
\* between two applies.
LocalManifests == {M1, M2}

\* What a cloned repository may hold.
RepoManifests == {M1, MNoName, MNoVersion, MNoAppID, MMalformed, NoManifest}

\* The manifests runBuild is called on directly.
BuildManifests == {M1, M2, M3, MNoVersion, NoManifest}

\* A text file: the literal text, then (when ref is not "") one action
\* {{.ref}}; bad marks text the template parser rejects.
Text(lit, ref, bad, perm) == [lit |-> lit, ref |-> ref, bad |-> bad, perm |-> perm]

\* A directory tree: the manifest, the text files by name, and the *.lpk
\* files directly under the root, oldest modification time first.
Tree(manifest, files, lpk) == [manifest |-> manifest, files |-> files, lpk |-> lpk]

LocalDir == "/w"
TmpDir == "/tmp/lpk-build-1"

TemplateName == <<"c", ".", "t", "m", "p", "l">>

EmptyFiles == [n \in {} |-> Text("", "", FALSE, "0644")]

TemplateK == Text("k=", "K", FALSE, "0600")
TemplateBad == Text("{{", "", TRUE, "0644")

\* The text files a source tree starts with: one template that needs K.
OneTemplate(body) == [n \in {TemplateName} |-> body]

----------------------------------------------------------------------------
(* computeSHA: hex(sha256(bytes)), taken to be collision free.             *)

computeSHA(bytes) == "sha256(" \o ToString(bytes) \o ")"

\* A reader that reports no error: what it cannot read is an empty manifest.
readManifest_lenient(tree) ==
    IF ~tree.manifest.present \/ ~tree.manifest.wellformed
    THEN [err |-> "", name |-> "", version |-> "", appid |-> ""]
    ELSE [err |-> "", name |-> tree.manifest.name,
          version |-> tree.manifest.version, appid |-> tree.manifest.appid]

(* readManifest: os.ReadFile then yaml.Unmarshal into {appid, version,     *)
(* name}; the error is "" for nil.                                         *)
readManifest(tree) ==
    IF ~tree.manifest.present
    THEN [err |-> "no such file", name |-> "", version |-> "", appid |-> ""]
    ELSE IF ~tree.manifest.wellformed
    THEN [err |-> "yaml", name |-> "", version |-> "", appid |-> ""]
    ELSE [err |-> "", name |-> tree.manifest.name,
          version |-> tree.manifest.version, appid |-> tree.manifest.appid]

----------------------------------------------------------------------------
(* The .lpk files of a tree.                                               *)

LpkNames(tree) == {tree.lpk[i].name : i \in 1..Len(tree.lpk)}

LpkIndex(tree, name) == CHOOSE i \in 1..Len(tree.lpk) : tree.lpk[i].name = name

LpkData(tree, name) == tree.lpk[LpkIndex(tree, name)].data

RECURSIVE WithoutName(_, _)
WithoutName(seq, name) ==
    IF seq = <<>> THEN <<>>
    ELSE IF Head(seq).name = name THEN WithoutName(Tail(seq), name)
    ELSE <<Head(seq)>> \o WithoutName(Tail(seq), name)

\* Writing a file gives it the newest modification time.
RECURSIVE WriteLpks(_, _)
WriteLpks(seq, written) ==
    IF written = <<>> THEN seq
    ELSE WriteLpks(Append(WithoutName(seq, Head(written).name), Head(written)),
                   Tail(written))

\* os.Rename(old, new): the file keeps its modification time and replaces new.
RenameLpk(seq, old, new) ==
    LET kept == WithoutName(seq, new)
    IN  [i \in 1..Len(kept) |->
            IF kept[i].name = old THEN [name |-> new, data |-> kept[i].data]
            ELSE kept[i]]

\* A choice of the oldest .lpk file.
findLatestLPK_oldest(tree) ==
    IF Len(tree.lpk) = 0
    THEN [err |-> "no .lpk artifact produced", name |-> ""]
    ELSE [err |-> "", name |-> tree.lpk[1].name]

(* findLatestLPK: glob dir/*.lpk, sort by ModTime descending, take the     *)
(* first.                                                                  *)
findLatestLPK(tree) ==
    IF Len(tree.lpk) = 0
    THEN [err |-> "no .lpk artifact produced", name |-> ""]
    ELSE [err |-> "", name |-> tree.lpk[Len(tree.lpk)].name]

----------------------------------------------------------------------------
(* The env block.                                                          *)

\* env { variables = {...}, template_extension = ... }; present is FALSE for
\* an absent block, extNull is TRUE for a null or unknown template_extension.
Env(present, variables, extNull, ext) ==
    [present |-> present, variables |-> variables, extNull |-> extNull, ext |-> ext]

NoVars == [k \in {} |-> ""]

\* collectEnvVars: the non-null variables; nil (the empty map) when none.
collectEnvVars(env) ==
    IF ~env.present THEN NoVars
    ELSE LET keys == {k \in DOMAIN env.variables : ~IsNull(env.variables[k])}
         IN  [k \in keys |-> ValueString(env.variables[k])]

RECURSIVE TrimLeft(_)
TrimLeft(s) == IF s # <<>> /\ Head(s) = " " THEN TrimLeft(Tail(s)) ELSE s

RECURSIVE TrimRight(_)
TrimRight(s) ==
    IF s # <<>> /\ s[Len(s)] = " " THEN TrimRight(SubSeq(s, 1, Len(s) - 1)) ELSE s

TrimSpace(s) == TrimRight(TrimLeft(s))

\* An extension taken as written, without the dot put in front.
resolveTemplateExtension_asWritten(env) ==
    IF ~env.present \/ env.extNull THEN defaultTemplateExtension
    ELSE IF TrimSpace(env.ext) = <<>> THEN defaultTemplateExtension
    ELSE TrimSpace(env.ext)

resolveTemplateExtension(env) ==
    IF ~env.present \/ env.extNull THEN defaultTemplateExtension
    ELSE LET ext == TrimSpace(env.ext)
         IN  IF ext = <<>> THEN defaultTemplateExtension
             ELSE IF Head(ext) # "." THEN <<".">> \o ext
             ELSE ext

----------------------------------------------------------------------------
(* Template rendering.                                                     *)

\* Byte order of the characters file names are written with.
Alphabet == <<" ", ".", "2", "c", "d", "j", "l", "m", "p", "t">>

CharRank(ch) == CHOOSE i \in 1..Len(Alphabet) : Alphabet[i] = ch

RECURSIVE SeqLess(_, _)
SeqLess(a, b) ==
    IF a = <<>> THEN b # <<>>
    ELSE IF b = <<>> THEN FALSE
    ELSE IF Head(a) = Head(b) THEN SeqLess(Tail(a), Tail(b))
    ELSE CharRank(Head(a)) < CharRank(Head(b))

\* filepath.WalkDir visits the entries of a directory in lexical order.
RECURSIVE WalkOrder(_)
WalkOrder(names) ==
    IF names = {} THEN <<>>
    ELSE LET first == CHOOSE x \in names : \A y \in names \ {x} : SeqLess(x, y)
         IN  <<first>> \o WalkOrder(names \ {first})

\* os.WriteFile(dest, data, perm): perm is used only when dest is created.
WriteFile(files, dest, lit, perm) ==
    LET mode == IF dest \in DOMAIN files THEN files[dest].perm ELSE perm
    IN  [n \in DOMAIN files \cup {dest} |->
            IF n = dest THEN Text(lit, "", FALSE, mode) ELSE files[n]]

\* The characters of a name as one string.
RECURSIVE Str(_)
Str(seq) == IF seq = <<>> THEN "" ELSE Head(seq) \o Str(Tail(seq))

(* The error tmpl.Execute returns when the map lacks the key of {{.key}}   *)
(* under missingkey=error: a template.ExecError whose Err is the           *)
(* pre-formatted message, here in segments (the line and column are left   *)
(* out).  name is the template's name, filepath.Base(path).                *)
ExecError(name, key) ==
    <<"template: ", name, ": executing \"", name, "\" at <.", key, ">: ",
      "map has no entry for key ", "\"", key, "\"">>

\* Execution with the default missingkey option: no error, "<no value>".
Execute_missingKeyDefault(name, data, envVars) ==
    [err |-> <<>>,
     buf |-> IF data.ref = "" THEN data.lit
             ELSE IF data.ref \in DOMAIN envVars THEN data.lit \o envVars[data.ref]
             ELSE data.lit \o "<no value>"]

\* tmpl.Execute(&buf, envVars) with Option("missingkey=error").
Execute(name, data, envVars) ==
    IF data.ref # "" /\ data.ref \notin DOMAIN envVars
    THEN [err |-> ExecError(name, data.ref), buf |-> data.lit]
    ELSE [err |-> <<>>,
          buf |-> IF data.ref = "" THEN data.lit ELSE data.lit \o envVars[data.ref]]

\* err.Error() of a message in segments.
RECURSIVE ErrorString(_)
ErrorString(msg) == IF msg = <<>> THEN "" ELSE Head(msg) \o ErrorString(Tail(msg))

(* extractMissingKey: the message must start with the prefix; what follows *)
(* it, without the quotes, is the key.                                     *)
extractMissingKey(msg) ==
    IF msg = <<>> THEN ""
    ELSE IF Head(msg) # "map has no entry for key " THEN ""
    ELSE ErrorString(SelectSeq(Tail(msg), LAMBDA seg : seg # "\""))

\* formatTemplateError of an ExecError with message msg.
formatTemplateError(msg) ==
    IF extractMissingKey(msg) # ""
    THEN "environment variable " \o extractMissingKey(msg) \o " not provided"
    ELSE ErrorString(msg)

\* A rendering that executes the template straight into its output file.
renderTemplateFile_streamed(dir, files, name, extension, envVars) ==
    LET data == files[name]
        path == Join(dir, Str(name))
        exec == Execute(Str(name), data, envVars)
    IN  IF data.bad
        THEN [err |-> "parse template " \o path \o ": template: " \o Str(name)
                        \o ": unexpected token",
              files |-> files]
        ELSE [err |-> IF exec.err # <<>>
                      THEN "render template " \o path \o ": "
                             \o formatTemplateError(exec.err)
                      ELSE "",
              files |-> WriteFile(files, TrimSuffix(name, extension), exec.buf,
                                  data.perm)]

(* renderTemplateFile: parse with missingkey=error, execute into a buffer, *)
(* then write the buffer to the path without the extension.  dir is the    *)
(* directory of the file, name its name in the directory.                  *)
renderTemplateFile(dir, files, name, extension, envVars) ==
    LET data == files[name]
        path == Join(dir, Str(name))
        exec == Execute(Str(name), data, envVars)
    IN  IF data.bad
        THEN [err |-> "parse template " \o path \o ": template: " \o Str(name)
                        \o ": unexpected token",
              files |-> files]
        ELSE IF exec.err # <<>>
        THEN [err |-> "render template " \o path \o ": "
                        \o formatTemplateError(exec.err),
              files |-> files]
        ELSE [err |-> "",
              files |-> WriteFile(files, TrimSuffix(name, extension), exec.buf,
                                  data.perm)]

\* A walk that renders every file, whatever its name ends with.
RECURSIVE renderWalk_everyFile(_, _, _, _, _)
renderWalk_everyFile(dir, files, todo, ext, envVars) ==
    IF todo = <<>> THEN [err |-> "", files |-> files]
    ELSE LET r == renderTemplateFile(dir, files, Head(todo), ext, envVars)
         IN  IF r.err # "" THEN r
             ELSE renderWalk_everyFile(dir, r.files, Tail(todo), ext, envVars)

RECURSIVE renderWalk(_, _, _, _, _)
renderWalk(dir, files, todo, ext, envVars) ==
    IF todo = <<>> THEN [err |-> "", files |-> files]
    ELSE IF ~HasSuffix(Head(todo), ext)
    THEN renderWalk(dir, files, Tail(todo), ext, envVars)
    ELSE LET r == renderTemplateFile(dir, files, Head(todo), ext, envVars)
         IN  IF r.err # "" THEN r
             ELSE renderWalk(dir, r.files, Tail(todo), ext, envVars)

renderTemplateFiles(baseDir, tree, extension, envVars) ==
    LET ext == IF extension = <<>> THEN defaultTemplateExtension ELSE extension
        r == renderWalk(baseDir, tree.files, WalkOrder(DOMAIN tree.files), ext,
                        envVars)
    IN  [err |-> r.err, tree |-> Tree(tree.manifest, r.files, tree.lpk)]

----------------------------------------------------------------------------
(* The build and publish blocks.                                           *)

\* build { command = ... }
Build(present, command) == [present |-> present, command |-> command]

\* publish { enabled = ..., name = ..., version = ... }; enabled is "null",
\* "true" or "false".
Publish(present, enabled, name, version) ==
    [present |-> present, enabled |-> enabled, name |-> name, version |-> version]

\* A switch that is off unless enabled = true is written.
shouldPublish_optIn(pub) == pub.present /\ pub.enabled = "true"

shouldPublish(pub) ==
    IF ~pub.present \/ pub.enabled = "null" THEN TRUE ELSE pub.enabled = "true"

lpkMetadata(appID, version, sha, name) ==
    [AppID |-> appID, Version |-> version, SHA256 |-> sha, Name |-> name]

NoMeta == lpkMetadata("", "", "", "")

----------------------------------------------------------------------------
(* runBuild.  `run` is what the build command does when it is invoked:     *)
(* its exit status and the .lpk files it writes into the working           *)
(* directory.  The result carries the tree after the call and the calls    *)
(* made, in order.                                                         *)

BuildResult(err, lpkPath, meta, tree, trace, artifactPath) ==
    [err |-> err, lpkPath |-> lpkPath, meta |-> meta, tree |-> tree,
     trace |-> trace, artifactPath |-> artifactPath]

buildCommand(build) ==
    IF build.present /\ ~IsNull(build.command) /\ ValueString(build.command) # ""
    THEN ValueString(build.command)
    ELSE "npx lzc-cli project build ."

\* The metadata runBuild returns for an artifact at its canonical path.
buildMeta(manifest, base, sha, pub) ==
    lpkMetadata(
        manifest.appid,
        IF pub.present /\ ~IsNull(pub.version) /\ ValueString(pub.version) # ""
        THEN ValueString(pub.version) ELSE manifest.version,
        sha,
        IF pub.present /\ ~IsNull(pub.name) /\ ValueString(pub.name) # ""
        THEN ValueString(pub.name) ELSE base)

\* An artifact base name made of the manifest's name alone.
artifactBase_nameOnly(manifest, manifestHash) == manifest.name

\* fmt.Sprintf("%s-%s-%s", manifest.Name, manifest.Version, manifestHash)
artifactBase(manifest, manifestHash) ==
    Sprintf3(manifest.name, manifest.version, manifestHash)

\* A cache check that never finds the artifact.
statNotExist_always(tree, artifactName) == TRUE

\* A cache check that also misses when the directory holds other files.
statNotExist_otherFiles(tree, artifactName) ==
    artifactName \notin LpkNames(tree) \/ tree.files # EmptyFiles

\* The cache check: os.Stat(artifactPath) reports that no such file exists.
statNotExist(tree, artifactName) == artifactName \notin LpkNames(tree)

runBuild(tree, path, build, pub, envVars, run) ==
    LET manifest == readManifest(tree)
        manifestHash == computeSHA(tree.manifest)
        base == artifactBase(manifest, manifestHash)
        artifactName == base \o ".lpk"
        artifactPath == Join(path, artifactName)
        done(t, trace) ==
            BuildResult("", artifactPath,
                        buildMeta(manifest, base,
                                  computeSHA(LpkData(t, artifactName)), pub),
                        t, trace, artifactPath)
    IN  IF manifest.err # ""
        THEN BuildResult("read manifest: " \o manifest.err, "", NoMeta, tree,
                         <<"readManifest">>, "")
        ELSE IF manifest.name = ""
        THEN BuildResult("manifest name must be set", "", NoMeta, tree,
                         <<"readManifest">>, "")
        ELSE IF manifest.version = ""
        THEN BuildResult("manifest version must be set", "", NoMeta, tree,
                         <<"readManifest">>, "")
        ELSE IF statNotExist(tree, artifactName)
        THEN LET cmd == "sh -c " \o buildCommand(build)
                 built == Tree(tree.manifest, tree.files,
                               WriteLpks(tree.lpk, run.written))
                 out == findLatestLPK(built)
             IN  IF run.exit # "ok"
                 THEN BuildResult("exit status 1", "", NoMeta, built,
                                  <<"readManifest", "Stat", cmd>>, artifactPath)
                 ELSE IF out.err # ""
                 THEN BuildResult(out.err, "", NoMeta, built,
                                  <<"readManifest", "Stat", cmd, "Glob">>,
                                  artifactPath)
                 ELSE IF out.name # artifactName
                 THEN done(Tree(built.manifest, built.files,
                                RenameLpk(built.lpk, out.name, artifactName)),
                           <<"readManifest", "Stat", cmd, "Glob", "Rename">>)
                 ELSE done(built, <<"readManifest", "Stat", cmd, "Glob">>)
        ELSE done(tree, <<"readManifest", "Stat">>)

----------------------------------------------------------------------------
(* The source block and prepareSource.                                     *)

Local(present, path) == [present |-> present, path |-> path]

Git(present, url, ref, subpath) ==
    [present |-> present, url |-> url, ref |-> ref, subpath |-> subpath]

Source(local, git) == [local |-> local, git |-> git]

NoLocal == Local(FALSE, Null)
NoGit == Git(FALSE, Null, Null, Null)

EmptyTree == Tree(NoManifest, EmptyFiles, <<>>)

\* A removal that empties every other directory as well.
RemoveAll_everything(fsys, dir) == [d \in DOMAIN fsys \ {dir} |-> EmptyTree]

\* os.RemoveAll(dir)
RemoveAll(fsys, dir) == [d \in DOMAIN fsys \ {dir} |-> fsys[d]]

\* A directory appears, or its tree is replaced.
PutDir(fsys, dir, tree) ==
    [d \in DOMAIN fsys \cup {dir} |-> IF d = dir THEN tree ELSE fsys[d]]

SourceResult(err, workdir, root, cleanup, fsys, trace) ==
    [err |-> err, workdir |-> workdir, root |-> root, cleanup |-> cleanup,
     fs |-> fsys, trace |-> trace]

\* The elements of the paths and subpaths that are joined: the string
\* split at its separators.
SplitPath(p) ==
    CASE p = "/tmp/lpk-build-1/repo" -> <<"tmp", "lpk-build-1", "repo">>
      [] p = ".." -> <<"..">>
      [] p = "../.." -> <<"..", "..">>
      [] p = "app/.." -> <<"app", "..">>
      [] OTHER -> <<p>>

\* filepath.Clean on the elements of a rooted path: "." and empty elements
\* are dropped, ".." drops the element before it and is dropped at the root.
RECURSIVE CleanPath(_, _)
CleanPath(done, todo) ==
    IF todo = <<>> THEN done
    ELSE IF Head(todo) \in {"", "."} THEN CleanPath(done, Tail(todo))
    ELSE IF Head(todo) = ".."
    THEN CleanPath(IF done = <<>> THEN <<>> ELSE SubSeq(done, 1, Len(done) - 1),
                   Tail(todo))
    ELSE CleanPath(Append(done, Head(todo)), Tail(todo))

RECURSIVE PathString(_)
PathString(elems) ==
    IF elems = <<>> THEN "" ELSE "/" \o Head(elems) \o PathString(Tail(elems))

\* filepath.Join(dir, sub): the elements are joined and the result cleaned.
filepathJoin(dir, sub) ==
    LET elems == CleanPath(<<>>, SplitPath(dir) \o SplitPath(sub))
    IN  IF elems = <<>> THEN "/" ELSE PathString(elems)

(* prepareSource.  `git` is what the outside does when asked: whether      *)
(* MkdirTemp, git clone and git checkout succeed and the tree the clone    *)
(* (after the checkout) leaves in repo/.  root is the directory of fs that *)
(* holds the working directory, cleanup whether a cleanup function is      *)
(* returned.                                                               *)
prepareSource(fsys, source, git) ==
    IF source.local.present
    THEN IF IsNull(source.local.path) \/ ValueString(source.local.path) = ""
         THEN SourceResult("local.path must be set", "", "", FALSE, fsys, <<>>)
         ELSE SourceResult("", ValueString(source.local.path),
                           ValueString(source.local.path), FALSE, fsys, <<>>)
    ELSE IF source.git.present
    THEN IF IsNull(source.git.url) \/ ValueString(source.git.url) = ""
         THEN SourceResult("git.url must be set", "", "", FALSE, fsys, <<>>)
         ELSE IF git.mkdir # "ok"
         THEN SourceResult("mkdir temp", "", "", FALSE, fsys, <<"MkdirTemp">>)
         ELSE IF git.clone # "ok"
         THEN SourceResult("git clone failed", "", "", FALSE,
                           RemoveAll(PutDir(fsys, TmpDir, EmptyTree), TmpDir),
                           <<"MkdirTemp", "git clone", "RemoveAll">>)
         ELSE LET repoPath == Join(TmpDir, "repo")
                  cloned == PutDir(fsys, TmpDir, git.tree)
                  ref == ~IsNull(source.git.ref) /\ ValueString(source.git.ref) # ""
                  sub == IF ~IsNull(source.git.subpath)
                            /\ ValueString(source.git.subpath) # ""
                         THEN filepathJoin(repoPath, ValueString(source.git.subpath))
                         ELSE repoPath
              IN  IF ref /\ git.checkout # "ok"
                  THEN SourceResult("git checkout failed", "", "", FALSE,
                                    RemoveAll(cloned, TmpDir),
                                    <<"MkdirTemp", "git clone", "git checkout",
                                      "RemoveAll">>)
                  ELSE SourceResult("", sub, TmpDir, TRUE, cloned,
                                    IF ref
                                    THEN <<"MkdirTemp", "git clone", "git checkout">>
                                    ELSE <<"MkdirTemp", "git clone">>)
    ELSE SourceResult("either source.local or source.git must be provided",
                      "", "", FALSE, fsys, <<>>)

\* Validation with AtLeastOneOf alone.
ConfigValidators_noConflicting(source) ==
    IF ~source.local.present /\ ~source.git.present
    THEN "at least one of source.local, source.git must be configured"
    ELSE ""

(* ConfigValidators: AtLeastOneOf(source.local, source.git) and            *)
(* Conflicting(source.local, source.git); the framework runs them on the   *)
(* configuration before it calls Create or Update.  "" when both pass.     *)
ConfigValidators(source) ==
    IF ~source.local.present /\ ~source.git.present
    THEN "at least one of source.local, source.git must be configured"
    ELSE IF source.local.present /\ source.git.present
    THEN "source.local conflicts with source.git"
    ELSE ""

----------------------------------------------------------------------------
(* The registry client and the publish decision.                           *)

\* The computed attributes of LPKBuildModel, and whether a state exists.
Model(exists, id, lpkURL, sha, appID, version, localPath, uploadID) ==
    [exists |-> exists, ID |-> id, LPKURL |-> lpkURL, SHA256 |-> sha,
     AppID |-> appID, Version |-> version, LocalPath |-> localPath,
     UploadID |-> uploadID]

NoState == Model(FALSE, Null, Null, Null, Null, Null, Null, Null)

\* UploadLPK(user, name, version, filePath) -> {id, downloadURL, sha256,
\* version}.  `reg` is how the registry answers this call: with an error, or
\* with the id it mints, a download URL (or none), and a sha256 and a version
\* that it leaves out ("omit"), computes from what it received ("echo") or
\* reports in a form of its own ("other").
UploadLPK(reg, name, version, bytes) ==
    [err |-> IF reg.fail THEN "api POST: 500" ELSE "",
     ID |-> reg.id,
     DownloadURL |-> IF reg.url THEN "https://nas/" \o reg.id ELSE "",
     SHA256 |-> CASE reg.sha = "omit" -> ""
                  [] reg.sha = "echo" -> computeSHA(bytes)
                  [] OTHER -> "SHA256:" \o ToString(bytes),
     Version |-> CASE reg.ver = "omit" -> ""
                   [] reg.ver = "echo" -> version
                   [] OTHER -> "v" \o version]

\* A reuse decision that does not compare the content hashes.
canReuseUpload_noHash(prior, meta) ==
    IF ~prior.exists THEN FALSE
    ELSE IF IsNull(prior.UploadID) \/ ValueString(prior.UploadID) = "" THEN FALSE
    ELSE IF IsNull(prior.LPKURL) \/ ValueString(prior.LPKURL) = "" THEN FALSE
    ELSE TRUE

\* A reuse decision that does not look at the download URL.
canReuseUpload_noURL(prior, meta) ==
    IF ~prior.exists THEN FALSE
    ELSE IF IsNull(prior.UploadID) \/ ValueString(prior.UploadID) = "" THEN FALSE
    ELSE IF IsNull(prior.SHA256) \/ ValueString(prior.SHA256) # meta.SHA256 THEN FALSE
    ELSE TRUE

canReuseUpload(prior, meta) ==
    IF ~prior.exists THEN FALSE
    ELSE IF IsNull(prior.UploadID) \/ ValueString(prior.UploadID) = "" THEN FALSE
    ELSE IF IsNull(prior.LPKURL) \/ ValueString(prior.LPKURL) = "" THEN FALSE
    ELSE IF IsNull(prior.SHA256) \/ ValueString(prior.SHA256) # meta.SHA256 THEN FALSE
    ELSE TRUE

----------------------------------------------------------------------------
(* applyBuild.  data is the planned configuration {source, build, publish, *)
(* env}, prior the prior state (NoState for nil), ext what the outside     *)
(* does during the call: ext.git for prepareSource, ext.run for the build  *)
(* command, ext.reg for the registry.                                      *)

Config(source, build, publish, env) ==
    [source |-> source, build |-> build, publish |-> publish, env |-> env]

\* What a call of applyBuild did: its error ("" for nil), the model it
\* returns, the filesystem it leaves, the external calls in order, and what
\* runBuild and the publish decision were given and returned.
ApplyResult(err, result, fsys, trace, workdir, manifest, artifactPath, meta, reuse) ==
    [err |-> err, result |-> result, fs |-> fsys, trace |-> trace,
     workdir |-> workdir, manifest |-> manifest, artifactPath |-> artifactPath,
     meta |-> meta, reuse |-> reuse]

\* A cleanup that removes nothing.
cleanup_skip(src, fsys) == fsys

\* The deferred cleanup(): os.RemoveAll(tmp) when prepareSource returned one.
cleanup(src, fsys) == IF src.cleanup THEN RemoveAll(fsys, TmpDir) ELSE fsys

cleanupTrace(src) == IF src.cleanup THEN <<"RemoveAll">> ELSE <<>>

\* The working directory of a source kept under directory d of fs.
WorkdirOf(d) == IF d = TmpDir THEN Join(TmpDir, "repo") ELSE d

\* The .lpk files found at a path: pairs <<directory, name>>.
LpkAt(fsys, path) ==
    UNION {{<<d, n>> : n \in {m \in LpkNames(fsys[d]) : Join(WorkdirOf(d), m) = path}} :
           d \in DOMAIN fsys}

\* os.ReadFile(path) of an .lpk file that exists.
ReadLpk(fsys, path) ==
    LET e == CHOOSE x \in LpkAt(fsys, path) : TRUE
    IN  LpkData(fsys[e[1]], e[2])

\* The name and the version an upload is made under.
uploadName(data, meta) ==
    IF data.publish.present /\ ~IsNull(data.publish.name)
       /\ ValueString(data.publish.name) # ""
    THEN ValueString(data.publish.name) ELSE meta.Name

uploadVersion(data, meta) ==
    IF data.publish.present /\ ~IsNull(data.publish.version)
       /\ ValueString(data.publish.version) # ""
    THEN ValueString(data.publish.version) ELSE meta.Version

\* What applyBuild takes from the answer `upload` of UploadLPK.
uploaded(upload, meta) ==
    [err |-> IF upload.err # "" THEN "upload error: " \o upload.err ELSE "",
     trace |-> <<"UploadLPK">>, reuse |-> "false",
     LPKURL |-> upload.DownloadURL, UploadID |-> upload.ID,
     SHA256 |-> IF upload.SHA256 # "" THEN upload.SHA256 ELSE meta.SHA256,
     Version |-> IF upload.Version # "" THEN upload.Version ELSE meta.Version]

\* A publish step without the reuse branch.
publish_alwaysUpload(data, prior, meta, lpkPath, bytes, reg) ==
    uploaded(UploadLPK(reg, uploadName(data, meta), uploadVersion(data, meta),
                       bytes),
             meta)

\* The publish step of applyBuild: reuse the prior upload, or upload.
publish(data, prior, meta, lpkPath, bytes, reg) ==
    IF canReuseUpload(prior, meta)
    THEN [err |-> "", trace |-> <<>>, reuse |-> "true",
          LPKURL |-> prior.LPKURL, UploadID |-> prior.UploadID,
          SHA256 |-> meta.SHA256,
          Version |-> IF ~IsNull(prior.Version) THEN prior.Version ELSE meta.Version]
    ELSE uploaded(UploadLPK(reg, uploadName(data, meta), uploadVersion(data, meta),
                            bytes),
                  meta)

\* An applyBuild that walks the templates after runBuild returned.
applyReturn_renderLast(src, tree, trace, err, result, manifest, artifactPath, meta, reuse) ==
    ApplyResult(err, result, cleanup(src, PutDir(src.fs, src.root, tree)),
                src.trace \o trace \o <<"WalkDir">> \o cleanupTrace(src),
                src.workdir, manifest, artifactPath, meta, reuse)

\* applyBuild returns after runBuild: the deferred cleanup runs last.
applyReturn(src, tree, trace, err, result, manifest, artifactPath, meta, reuse) ==
    ApplyResult(err, result, cleanup(src, PutDir(src.fs, src.root, tree)),
                src.trace \o <<"WalkDir">> \o trace \o cleanupTrace(src),
                src.workdir, manifest, artifactPath, meta, reuse)

\* applyBuild from the publish step on: `built` is what runBuild returned
\* without error, `pub` what the publish step returned.
applyPublished(src, manifest, built, pub) ==
    IF pub.err # ""
    THEN applyReturn(src, built.tree, built.trace \o pub.trace, pub.err, NoState,
                     manifest, built.artifactPath, built.meta, pub.reuse)
    ELSE applyReturn(src, built.tree, built.trace \o pub.trace, "",
                     Model(TRUE,
                           Sprintf3(built.meta.AppID, built.meta.Version,
                                    built.meta.SHA256),
                           pub.LPKURL, pub.SHA256, built.meta.AppID, pub.Version,
                           built.lpkPath, pub.UploadID),
                     manifest, built.artifactPath, built.meta, pub.reuse)

\* applyBuild from the return of runBuild on.
applyBuilt(src, manifest, built, data, prior, ext) ==
    IF built.err # ""
    THEN applyReturn(src, built.tree, built.trace, built.err, NoState, manifest,
                     built.artifactPath, NoMeta, "n/a")
    ELSE IF ~shouldPublish(data.publish)
    THEN applyReturn(src, built.tree, built.trace, "",
                     Model(TRUE,
                           Sprintf3(built.meta.AppID, built.meta.Version,
                                    built.meta.SHA256),
                           Null, built.meta.SHA256, built.meta.AppID,
                           built.meta.Version, built.lpkPath, Null),
                     manifest, built.artifactPath, built.meta, "n/a")
    ELSE applyPublished(src, manifest, built,
                        publish(data, prior, built.meta, built.lpkPath,
                                ReadLpk(PutDir(src.fs, src.root, built.tree),
                                        built.lpkPath),
                                ext.reg))

\* applyBuild from the return of renderTemplateFiles on.
applyRendered(src, rendered, data, prior, ext) ==
    IF rendered.err # ""
    THEN applyReturn(src, rendered.tree, <<>>, rendered.err, NoState, NoManifest,
                     "", NoMeta, "n/a")
    ELSE applyBuilt(src, rendered.tree.manifest,
                    runBuild(rendered.tree, src.workdir, data.build, data.publish,
                             collectEnvVars(data.env), ext.run),
                    data, prior, ext)

\* applyBuild from the return of prepareSource on.
applySource(src, data, prior, ext) ==
    IF src.err # ""
    THEN ApplyResult("source error: " \o src.err, NoState, src.fs, src.trace,
                     "", NoManifest, "", NoMeta, "n/a")
    ELSE applyRendered(src,
                       renderTemplateFiles(src.workdir, src.fs[src.root],
                                           resolveTemplateExtension(data.env),
                                           collectEnvVars(data.env)),
                       data, prior, ext)

applyBuild(fsys, data, prior, ext) ==
    applySource(prepareSource(fsys, data.source, ext.git), data, prior, ext)

----------------------------------------------------------------------------
(* The handlers' responses.                                                *)

\* Create: the new state is set only when applyBuild returned no error; the
\* response's state starts out empty.
CreateResponse(r) == IF r.err # "" THEN NoState ELSE r.result

\* An Update that sets the state whatever applyBuild returned.
UpdateResponse_always(prior, r) == r.result

\* Update: the response's state starts out as the prior state.
UpdateResponse(prior, r) == IF r.err # "" THEN prior ELSE r.result

\* os.Remove(path) of an .lpk file: every file found at the path disappears.
RemoveLpk(fsys, path) ==
    [d \in DOMAIN fsys |->
        Tree(fsys[d].manifest, fsys[d].files,
             SelectSeq(fsys[d].lpk, LAMBDA f : Join(WorkdirOf(d), f.name) # path))]

(* Delete.  ext.del is the registry's answer to DeleteLPK ("ok",           *)
(* "notfound" or "fail"), ext.rm whether os.Remove of an existing file     *)
(* succeeds ("ok" or "fail").  del and rm are what each call returned,     *)
(* "none" when it was not made.                                            *)
DeleteResult(err, newState, fsys, trace, del, rm) ==
    [err |-> err, state |-> newState, fs |-> fsys, trace |-> trace,
     del |-> del, rm |-> rm]

\* A Delete that takes every error of DeleteLPK for a failure.
deleteFailed_strict(del) == del \notin {"ok", "none"}

\* err != nil && !errors.Is(err, errNotFound)
deleteFailed(del) == del = "fail"

\* A Delete that tolerates every error of os.Remove.
removeFailed_never(rm) == FALSE

\* err != nil && !errors.Is(err, os.ErrNotExist)
removeFailed(rm) == rm = "fail"

DeleteResponse(fsys, prior, ext) ==
    LET callDel == ~IsNull(prior.UploadID) /\ ValueString(prior.UploadID) # ""
        del == IF callDel THEN ext.del ELSE "none"
        delTrace == IF callDel THEN <<"DeleteLPK">> ELSE <<>>
        callRm == ~IsNull(prior.LocalPath) /\ ValueString(prior.LocalPath) # ""
        rm == IF ~callRm THEN "none"
              ELSE IF LpkAt(fsys, ValueString(prior.LocalPath)) = {} THEN "notexist"
              ELSE ext.rm
        rmTrace == IF callRm THEN <<"Remove">> ELSE <<>>
    IN  IF deleteFailed(del)
        THEN DeleteResult("Delete upload failed", prior, fsys, delTrace, del, "none")
        ELSE IF removeFailed(rm)
        THEN DeleteResult("Remove artifact failed", prior, fsys,
                          delTrace \o rmTrace, del, rm)
        ELSE DeleteResult("", NoState,
                          IF rm = "ok" THEN RemoveLpk(fsys, ValueString(prior.LocalPath))
                          ELSE fsys,
                          delTrace \o rmTrace, del, rm)


----------------------------------------------------------------------------
(* What the handlers are called with, and what the outside may do.         *)

LocalSource == Source(Local(TRUE, LocalDir), NoGit)

GitSource(ref) == Source(NoLocal, Git(TRUE, "https://git/app", ref, Null))

\* Descriptors the pipeline rejects.
BadSources ==
    { Source(Local(TRUE, ""), NoGit),
      Source(NoLocal, Git(TRUE, "", Null, Null)),
      Source(Local(TRUE, LocalDir), Git(TRUE, "https://git/app", Null, Null)),
      Source(NoLocal, NoGit) }

NoBuild == Build(FALSE, Null)

NoPublish == Publish(FALSE, "null", Null, Null)

NoEnv == Env(FALSE, NoVars, TRUE, <<>>)

\* env with K set, a null variable and an extension written without its dot.
EnvK == Env(TRUE, [k \in {"K", "N"} |-> IF k = "K" THEN "v" ELSE Null],
            FALSE, <<"t", "m", "p", "l">>)

NoConfig == Config(Source(NoLocal, NoGit), NoBuild, NoPublish, NoEnv)

\* The configurations the handlers are called with.
Configs ==
    { Config(LocalSource, Build(TRUE, "make"), Publish(TRUE, "true", "pkg", "9"), EnvK),
      Config(LocalSource, NoBuild, NoPublish, EnvK),
      Config(LocalSource, NoBuild, Publish(TRUE, "false", Null, Null), EnvK),
      Config(LocalSource, NoBuild, Publish(TRUE, "null", Null, Null), NoEnv),
      Config(GitSource(Null), Build(TRUE, "make"), NoPublish, EnvK),
      Config(GitSource("main"), NoBuild, Publish(TRUE, "false", Null, Null), NoEnv) }
    \cup { Config(s, NoBuild, NoPublish, NoEnv) : s \in BadSources }

\* The trees a clone may leave in repo/: no .lpk files, a manifest, and for
\* a good manifest possibly a template.
RepoTrees ==
    { Tree(m, EmptyFiles, <<>>) : m \in RepoManifests }
    \cup { Tree(M1, OneTemplate(b), <<>>) : b \in {TemplateK, TemplateBad} }

GitRun(mkdir, clone, checkout, tree) ==
    [mkdir |-> mkdir, clone |-> clone, checkout |-> checkout, tree |-> tree]

NoGitRun == GitRun("ok", "ok", "ok", EmptyTree)

\* What git and MkdirTemp may do for a source: nothing is asked of them for a
\* local source, and no checkout without a ref.
GitRuns(source) ==
    IF source.local.present \/ ~source.git.present
       \/ IsNull(source.git.url) \/ ValueString(source.git.url) = ""
    THEN {NoGitRun}
    ELSE { GitRun("fail", "ok", "ok", EmptyTree), GitRun("ok", "fail", "ok", EmptyTree) }
         \cup { GitRun("ok", "ok", "ok", t) : t \in RepoTrees }
         \cup IF IsNull(source.git.ref) \/ ValueString(source.git.ref) = "" THEN {}
              ELSE { GitRun("ok", "ok", "fail", EmptyTree) }

\* A run of the build command: it fails, or it exits 0 having written no
\* .lpk file or out.lpk with some content.
BuildRun(exit, written) == [exit |-> exit, written |-> written]

NoBuildRun == BuildRun("fail", <<>>)

BuildRuns ==
    { BuildRun("fail", <<>>), BuildRun("ok", <<>>) }
    \cup { BuildRun("ok", <<[name |-> "out.lpk", data |-> c]>>) : c \in 1..MaxContent }

Registry(fail, id, url, sha, ver) ==
    [fail |-> fail, id |-> id, url |-> url, sha |-> sha, ver |-> ver]

NoRegistry == Registry(TRUE, "", FALSE, "omit", "omit")

\* The registry mints an id it has not handed out before: one that differs
\* from the id in the prior state.
FreshID(prior) == IF prior.exists /\ prior.UploadID = "u1" THEN "u2" ELSE "u1"

\* The answers of the registry to an upload: an error; an answer without an
\* id or without a URL; an id and a URL with the sha256 and version it
\* received, without them, or with both in a form of its own.
Registries(prior) ==
    { Registry(TRUE, "", FALSE, "omit", "omit"),
      Registry(FALSE, "", TRUE, "echo", "echo"),
      Registry(FALSE, FreshID(prior), FALSE, "echo", "echo"),
      Registry(FALSE, FreshID(prior), TRUE, "echo", "echo"),
      Registry(FALSE, FreshID(prior), TRUE, "omit", "omit"),
      Registry(FALSE, FreshID(prior), TRUE, "other", "other") }

External(git, run, reg, del, rm) ==
    [git |-> git, run |-> run, reg |-> reg, del |-> del, rm |-> rm]

Called(trace, call) == \E i \in 1..Len(trace) : trace[i] = call

Count(trace, call) == Cardinality({i \in 1..Len(trace) : trace[i] = call})

\* The call that runs the build command of a build block.
ShC(build) == "sh -c " \o buildCommand(build)

\* What the outside may do during an applyBuild of data: it answers the
\* calls that are made.  Whether the build command is invoked does not
\* depend on what it will do, nor whether UploadLPK is called on the answer.
ApplyExternals(fsys, data, prior) ==
    UNION { UNION { { External(g, b, r, "ok", "ok") :
                        r \in IF Called(applyBuild(fsys, data, prior,
                                                   External(g, b, NoRegistry, "ok", "ok")).trace,
                                        "UploadLPK")
                              THEN Registries(prior) ELSE {NoRegistry} } :
                    b \in IF Called(applyBuild(fsys, data, prior,
                                               External(g, NoBuildRun, NoRegistry, "ok", "ok")).trace,
                                    ShC(data.build))
                          THEN BuildRuns ELSE {NoBuildRun} } :
            g \in GitRuns(data.source) }

DeleteExternals ==
    { External(NoGitRun, NoBuildRun, NoRegistry, d, r) :
        d \in {"ok", "notfound", "fail"}, r \in {"ok", "fail"} }

\* What the build command may do during a runBuild that invokes it.
BuildExternals(tree, data) ==
    IF Called(runBuild(tree, LocalDir, data.build, data.publish,
                       collectEnvVars(data.env), NoBuildRun).trace,
              ShC(data.build))
    THEN BuildRuns ELSE {NoBuildRun}

----------------------------------------------------------------------------
(* The state machine of the resource.                                      *)

\* What is kept of the call before the last one.
Previous(op, err, data, manifest, invoked, artifactPath, meta) ==
    [op |-> op, err |-> err, data |-> data, manifest |-> manifest,
     invoked |-> invoked, artifactPath |-> artifactPath, meta |-> meta]

NoPrevious == Previous("none", "", NoConfig, NoManifest, FALSE, "", NoMeta)

\* The summary of a call: which handler ran (op is "none" while no response
\* is outstanding), the configuration and the prior state it was given, the
\* error it reported, the external calls it made in order, whether it left
\* the filesystem changed, and for applyBuild and runBuild the working
\* directory, the manifest bytes in it, the canonical artifact path, the
\* metadata and the reuse decision, and whether a file was at the artifact
\* path when the call began; for Delete what DeleteLPK and os.Remove
\* returned.
Summary(op, data, prior, err, trace, fsChanged, workdir, manifest, artifactPath, cached, meta, reuse, del, rm, prev) ==
    [op |-> op, data |-> data, prior |-> prior, err |-> err, trace |-> trace,
     fsChanged |-> fsChanged, workdir |-> workdir, manifest |-> manifest,
     artifactPath |-> artifactPath, cached |-> cached, meta |-> meta,
     reuse |-> reuse, del |-> del, rm |-> rm, prev |-> prev]

\* A file is at the artifact path.
Cached(fsys, path) == path # "" /\ LpkAt(fsys, path) # {}

NoCall ==
    Summary("none", NoConfig, NoState, "", <<>>, FALSE, "", NoManifest, "", FALSE,
            NoMeta, "n/a", "none", "none", NoPrevious)

Init ==
    /\ fs = [d \in {LocalDir} |-> Tree(M1, OneTemplate(TemplateK), <<>>)]
    /\ state = NoState
    /\ last = NoCall

ApplySummary(op, data, prior, fsys, r) ==
    Summary(op, data, prior, r.err, r.trace, r.fs # fsys, r.workdir, r.manifest,
            r.artifactPath, Cached(fsys, r.artifactPath), r.meta, r.reuse,
            "none", "none", NoPrevious)

RejectSummary(op, data, prior, err) ==
    Summary(op, data, prior, err, <<>>, FALSE, "", NoManifest, "", FALSE, NoMeta,
            "n/a", "none", "none", NoPrevious)

\* No handler call is outstanding.
Idle == last.op = "none"

\* terraform apply of a new resource: the configuration is validated, then
\* Create runs.
Create ==
    /\ Idle
    /\ ~state.exists
    /\ \E data \in Configs :
        IF ConfigValidators(data.source) # ""
        THEN /\ last' = RejectSummary("create", data, NoState,
                                      ConfigValidators(data.source))
             /\ UNCHANGED <<fs, state>>
        ELSE \E ext \in ApplyExternals(fs, data, NoState) :
                LET r == applyBuild(fs, data, NoState, ext)
                IN  /\ fs' = r.fs
                    /\ state' = CreateResponse(r)
                    /\ last' = ApplySummary("create", data, NoState, fs, r)

\* terraform apply of a changed configuration: validated, then Update runs
\* with the planned configuration and the prior state.
Update ==
    /\ Idle
    /\ state.exists
    /\ \E data \in Configs :
        IF ConfigValidators(data.source) # ""
        THEN /\ last' = RejectSummary("update", data, state,
                                      ConfigValidators(data.source))
             /\ UNCHANGED <<fs, state>>
        ELSE \E ext \in ApplyExternals(fs, data, state) :
                LET r == applyBuild(fs, data, state, ext)
                IN  /\ fs' = r.fs
                    /\ state' = UpdateResponse(state, r)
                    /\ last' = ApplySummary("update", data, state, fs, r)

\* terraform destroy.
Delete ==
    /\ Idle
    /\ state.exists
    /\ \E ext \in DeleteExternals :
        LET r == DeleteResponse(fs, state, ext)
        IN  /\ fs' = r.fs
            /\ state' = r.state
            /\ last' = Summary("delete", NoConfig, state, r.err, r.trace,
                               r.fs # fs, "", NoManifest, "", FALSE, NoMeta,
                               "n/a", r.del, r.rm, NoPrevious)

\* The response has been delivered; the provider waits for the next call.
Return ==
    /\ ~Idle
    /\ last' = NoCall
    /\ UNCHANGED <<fs, state>>

\* The author of the local source tree rewrites lzc-manifest.yml.
EditManifest ==
    /\ Idle
    /\ \E m \in LocalManifests \ {fs[LocalDir].manifest} :
        fs' = PutDir(fs, LocalDir,
                     Tree(m, fs[LocalDir].files, fs[LocalDir].lpk))
    /\ UNCHANGED <<state, last>>

Next == Create \/ Update \/ Delete \/ Return \/ EditManifest

Spec == Init /\ [][Next]_vars

----------------------------------------------------------------------------
(* runBuild on its own: consecutive calls on one working directory whose   *)
(* manifest the author may rewrite between them.                           *)

\* The arguments runBuild is called with.
BuildArgs ==
    { Config(LocalSource, NoBuild, NoPublish, NoEnv),
      Config(LocalSource, Build(TRUE, "make"), Publish(TRUE, "true", "pkg", "9"), NoEnv) }

\* The working directory starts with a manifest and no .lpk file.
InitBuild ==
    /\ fs \in { [d \in {LocalDir} |-> Tree(m, EmptyFiles, <<>>)] :
                   m \in BuildManifests }
    /\ state = NoState
    /\ last = NoCall

PreviousOf(s) ==
    Previous(s.op, s.err, s.data, s.manifest, Called(s.trace, ShC(s.data.build)),
             s.artifactPath, s.meta)

RunBuild ==
    /\ \E data \in BuildArgs :
        \E run \in BuildExternals(fs[LocalDir], data) :
            LET r == runBuild(fs[LocalDir], LocalDir, data.build, data.publish,
                              collectEnvVars(data.env), run)
            IN  /\ fs' = PutDir(fs, LocalDir, r.tree)
                /\ last' = Summary("build", data, NoState, r.err, r.trace,
                                   r.tree # fs[LocalDir], LocalDir,
                                   fs[LocalDir].manifest, r.artifactPath,
                                   Cached(fs, r.artifactPath), r.meta,
                                   "n/a", "none", "none", PreviousOf(last))
    /\ UNCHANGED state

EditBuildManifest ==
    /\ \E m \in BuildManifests \ {fs[LocalDir].manifest} :
        fs' = PutDir(fs, LocalDir,
                     Tree(m, fs[LocalDir].files, fs[LocalDir].lpk))
    /\ UNCHANGED <<state, last>>

NextBuild == RunBuild \/ EditBuildManifest

SpecBuild == InitBuild /\ [][NextBuild]_vars

----------------------------------------------------------------------------
(* Properties.  They are stated on the summary of the last call: what it   *)
(* was given (last.data, last.prior), what it did (last.trace) and what it *)
(* left (state, fs).                                                       *)

\* The last call was a Create or an Update that passed validation or not.
Applied == last.op \in {"create", "update"}

\* The last call invoked the build command.
Invoked == Called(last.trace, ShC(last.data.build))

\* The last call's build yielded an artifact (its content hash is known).
BuildYielded == last.meta.SHA256 # ""

\* The prior state holds an upload record with an id and a download URL.
PriorUpload ==
    /\ last.prior.exists
    /\ ValueString(last.prior.UploadID) # ""
    /\ ValueString(last.prior.LPKURL) # ""

\* Two consecutive runBuild calls with the same arguments read the same
\* manifest bytes.
SameBuildTwice ==
    /\ last.op = "build"
    /\ last.prev.op = "build"
    /\ last.prev.manifest = last.manifest
    /\ last.prev.data = last.data

\* C1 as stated: two consecutive Build calls with the manifest unchanged
\* invoke the build command at most once in total, and the second returns
\* the artifact path, appID, version and content hash of the first.
C1_BuildTwiceAnyOutcome ==
    SameBuildTwice =>
        /\ ~(last.prev.invoked /\ Invoked)
        /\ last.artifactPath = last.prev.artifactPath
        /\ last.meta.AppID = last.prev.meta.AppID
        /\ last.meta.Version = last.prev.meta.Version
        /\ last.meta.SHA256 = last.prev.meta.SHA256

\* C1 amended: when the first of two consecutive Build calls with the
\* manifest unchanged succeeded, the second succeeds without invoking the
\* build command and returns the same artifact path, appID, version and
\* content hash.
C1_BuildTwiceAfterSuccess ==
    (SameBuildTwice /\ last.prev.err = "") =>
        /\ ~Invoked
        /\ last.err = ""
        /\ last.artifactPath = last.prev.artifactPath
        /\ last.meta.AppID = last.prev.meta.AppID
        /\ last.meta.Version = last.prev.meta.Version
        /\ last.meta.SHA256 = last.prev.meta.SHA256

\* A second Build found the artifact the first one had the command build.
C1_Witness ==
    /\ SameBuildTwice
    /\ last.prev.err = ""
    /\ last.prev.invoked
    /\ last.err = ""
    /\ ~Invoked

\* C2 as stated: an Apply whose prior state holds an upload record with
\* content hash H and whose build yields an artifact with hash H makes no
\* Upload call and returns the prior download URL and upload ID.
C2_ReuseAnyApply ==
    (Applied /\ PriorUpload /\ BuildYielded
        /\ last.prior.SHA256 = last.meta.SHA256) =>
        /\ ~Called(last.trace, "UploadLPK")
        /\ last.err = ""
        /\ state.LPKURL = last.prior.LPKURL
        /\ state.UploadID = last.prior.UploadID

\* C2 amended: with publishing enabled, an Apply whose prior state holds an
\* upload record with content hash H and whose build yields an artifact
\* with hash H makes no Upload call and returns the prior download URL and
\* upload ID.
C2_ReuseWhenPublishing ==
    (Applied /\ shouldPublish(last.data.publish) /\ PriorUpload /\ BuildYielded
        /\ last.prior.SHA256 = last.meta.SHA256) =>
        /\ ~Called(last.trace, "UploadLPK")
        /\ last.err = ""
        /\ state.LPKURL = last.prior.LPKURL
        /\ state.UploadID = last.prior.UploadID

\* An Update reused the prior upload.
C2_Witness ==
    /\ last.op = "update"
    /\ shouldPublish(last.data.publish)
    /\ PriorUpload
    /\ last.prior.SHA256 = last.meta.SHA256
    /\ last.reuse = "true"
    /\ state.UploadID = last.prior.UploadID

\* C3 as stated: an Apply whose prior upload record has content hash H and
\* whose build yields an artifact with a hash other than H calls Upload
\* exactly once.
C3_UploadOnceAnyApply ==
    (Applied /\ PriorUpload /\ BuildYielded
        /\ last.prior.SHA256 # last.meta.SHA256) =>
        Count(last.trace, "UploadLPK") = 1

\* C3 amended: with publishing enabled, an Apply whose prior upload record
\* has content hash H and whose build yields an artifact with a hash other
\* than H calls Upload exactly once.
C3_UploadOnceWhenPublishing ==
    (Applied /\ shouldPublish(last.data.publish) /\ PriorUpload /\ BuildYielded
        /\ last.prior.SHA256 # last.meta.SHA256) =>
        Count(last.trace, "UploadLPK") = 1

\* An Update uploaded an artifact whose bytes differ from those the prior
\* record was made for.
C3_Witness ==
    /\ last.op = "update"
    /\ shouldPublish(last.data.publish)
    /\ PriorUpload
    /\ \E c, d \in 1..MaxContent :
        /\ c # d
        /\ last.prior.SHA256 = computeSHA(c)
        /\ last.meta.SHA256 = computeSHA(d)
    /\ Count(last.trace, "UploadLPK") = 1

\* The prior record was made by an upload of the bytes the artifact has now:
\* its sha256 is the hash of those bytes as applyBuild computes it or as the
\* registry reported it.
SameBytesAsPrior ==
    \E c \in 1..MaxContent :
        /\ last.meta.SHA256 = computeSHA(c)
        /\ last.prior.SHA256 \in
              { UploadLPK(Registry(FALSE, "u1", TRUE, f, "echo"), "", "", c).SHA256 :
                  f \in {"echo", "other"} }

\* C4 as stated: an Update that is given the persisted result of a
\* successful publishing Apply, with the artifact bytes unchanged and
\* publishing enabled, makes no Upload call and reports the same upload ID
\* and download URL, whatever sha256 and version the registry had returned.
C4_UpdateAfterPublish ==
    (last.op = "update" /\ shouldPublish(last.data.publish) /\ PriorUpload
        /\ BuildYielded /\ SameBytesAsPrior) =>
        /\ ~Called(last.trace, "UploadLPK")
        /\ state.UploadID = last.prior.UploadID
        /\ state.LPKURL = last.prior.LPKURL

\* C5: the reuse decision is true exactly when a prior record exists, its
\* upload ID is non-empty, its download URL is non-empty and its recorded
\* content hash equals the hash of the current artifact.
C5_CanReuseIff ==
    (Applied /\ last.reuse \in {"true", "false"}) =>
        (last.reuse = "true" <=>
            /\ last.prior.exists
            /\ ValueString(last.prior.UploadID) # ""
            /\ ValueString(last.prior.LPKURL) # ""
            /\ last.prior.SHA256 = last.meta.SHA256)

\* The reuse decision was reached with a prior record whose hash matches
\* but whose download URL is empty.
C5_Witness ==
    /\ Applied
    /\ last.reuse = "false"
    /\ last.prior.exists
    /\ ValueString(last.prior.UploadID) # ""
    /\ ValueString(last.prior.LPKURL) = ""
    /\ last.prior.SHA256 = last.meta.SHA256

\* The source block has both descriptors, or neither.
BothOrNeither(source) == source.local.present <=> source.git.present

\* C6: a source with both local and git, and one with neither, fail with a
\* configuration error before any filesystem or network I/O: no call is
\* made, the filesystem is untouched and the state is what it was.
C6_BadDescriptorFailsEarly ==
    (Applied /\ BothOrNeither(last.data.source)) =>
        /\ last.err # ""
        /\ last.trace = <<>>
        /\ ~last.fsChanged
        /\ state = last.prior

\* A configuration with both descriptors was rejected.
C6_Witness ==
    /\ Applied
    /\ last.data.source.local.present
    /\ last.data.source.git.present
    /\ last.err # ""

\* C7: for a git source no staging directory is left when Apply has
\* returned, on any exit path, and its removal is the last call Apply makes:
\* it comes after the build command and the upload.
C7_StagingRemovedLast ==
    /\ TmpDir \notin DOMAIN fs
    /\ (Applied /\ Called(last.trace, "git clone")) =>
            /\ Count(last.trace, "RemoveAll") = 1
            /\ last.trace[Len(last.trace)] = "RemoveAll"

\* An Apply from a git source built and uploaded, then removed the staging
\* directory.
C7_Witness ==
    /\ Applied
    /\ last.data.source.git.present
    /\ last.err = ""
    /\ Invoked
    /\ Called(last.trace, "UploadLPK")
    /\ last.trace[Len(last.trace)] = "RemoveAll"
    /\ TmpDir \notin DOMAIN fs

\* C8: a failed Create leaves no resource state, and a failed Update
\* leaves the persisted state exactly the prior state.
C8_FailureCommitsNothing ==
    /\ (last.op = "create" /\ last.err # "") => ~state.exists
    /\ (last.op = "update" /\ last.err # "") => state = last.prior

\* An Update failed in the upload, having rendered and built.
C8_Witness ==
    /\ last.op = "update"
    /\ last.prior.exists
    /\ Called(last.trace, "UploadLPK")
    /\ last.err # ""
    /\ state = last.prior

\* The manifest the previous Build read and the one this Build read are
\* both valid and differ in name or version and in nothing else; the
\* previous Build succeeded.
NameOrVersionChanged ==
    /\ last.op = "build"
    /\ last.prev.op = "build"
    /\ last.prev.err = ""
    /\ last.manifest.present /\ last.manifest.wellformed
    /\ last.manifest.name # "" /\ last.manifest.version # ""
    /\ last.prev.manifest.appid = last.manifest.appid
    /\ last.prev.manifest.pad = last.manifest.pad
    /\ \/ last.prev.manifest.name # last.manifest.name
       \/ last.prev.manifest.version # last.manifest.version

\* C9 as stated: after a change of the manifest's name or version the
\* artifact path is another one and the next Build invokes the build
\* command.
C9_RebuildAlways ==
    NameOrVersionChanged =>
        /\ last.artifactPath # last.prev.artifactPath
        /\ Invoked

\* C9 amended: after a change of the manifest's name or version the
\* artifact path is another one, and the next Build invokes the build
\* command unless a file is already at the new path.
C9_RebuildUnlessCached ==
    NameOrVersionChanged =>
        /\ last.artifactPath # last.prev.artifactPath
        /\ Invoked <=> ~last.cached

\* A Build after a change of name or version invoked the build command for
\* the new path.
C9_Witness ==
    /\ NameOrVersionChanged
    /\ last.artifactPath # last.prev.artifactPath
    /\ Invoked
    /\ last.err = ""

\* C10: Delete succeeds and removes the resource when DeleteLPK answers
\* not-found and when the artifact file is already missing; any other
\* error of DeleteLPK or os.Remove is reported, and neither call is made
\* twice.
C10_TeardownTolerates ==
    last.op = "delete" =>
        /\ (last.del # "fail" /\ last.rm # "fail") =>
                (last.err = "" /\ ~state.exists)
        /\ (last.del = "fail" \/ last.rm = "fail") => last.err # ""
        /\ Count(last.trace, "DeleteLPK") <= 1
        /\ Count(last.trace, "Remove") <= 1

\* A Delete met a not-found answer and a missing file, and succeeded.
C10_Witness ==
    /\ last.op = "delete"
    /\ last.del = "notfound"
    /\ last.rm = "notexist"
    /\ last.err = ""
    /\ ~state.exists

----------------------------------------------------------------------------
(* Artifact files on disk.                                                 *)

\* The step is a Create or an Update that ran applyBuild.
ApplyStep == last.op = "none" /\ last'.op \in {"create", "update"}

\* The artifact file the persisted state reports is on disk.
Reported(fsys, st) ==
    st.exists /\ Cached(fsys, ValueString(st.LocalPath))

\* C11 as stated: no Apply deletes, renames or overwrites an artifact file
\* that an earlier Apply reported, and the file an Apply reports is on disk
\* when the Apply returns (the cleanup of a git source included).
C11_ArtifactKept ==
    [][ApplyStep =>
          /\ Reported(fs, state) =>
                /\ Cached(fs', ValueString(state.LocalPath))
                /\ ReadLpk(fs', ValueString(state.LocalPath))
                      = ReadLpk(fs, ValueString(state.LocalPath))
          /\ last'.err = "" => Reported(fs', state')]_vars

----------------------------------------------------------------------------
(* Template rendering inside applyBuild.                                   *)

\* The last call was an applyBuild on the local source directory.
AppliedLocal == Applied /\ last.workdir = LocalDir

\* The templates of the local source directory under the extension of the
\* last call.  Rendering never writes to a template of these trees, so they
\* are the ones the call found.
LocalTemplates ==
    {n \in DOMAIN fs[LocalDir].files :
        HasSuffix(n, resolveTemplateExtension(last.data.env))}

\* Template n references a variable that the env block of the last call
\* does not provide.
MissingIn(n) ==
    /\ ~fs[LocalDir].files[n].bad
    /\ fs[LocalDir].files[n].ref # ""
    /\ fs[LocalDir].files[n].ref \notin DOMAIN collectEnvVars(last.data.env)

\* Template n references a variable that the env block provides.
ProvidedIn(n) ==
    /\ ~fs[LocalDir].files[n].bad
    /\ fs[LocalDir].files[n].ref \in DOMAIN collectEnvVars(last.data.env)

\* The error of rendering template n of directory dir when the executor
\* reports that the map has no entry for key.
MissingKeyError(dir, n, key) ==
    "render template " \o Join(dir, Str(n)) \o ": " \o "template: " \o Str(n)
        \o ": executing \"" \o Str(n) \o "\" at <." \o key
        \o ">: map has no entry for key \"" \o key \o "\""

\* C12: an Apply whose template references a variable that env.variables
\* does not provide fails with the render error that names that variable
\* and no other, and runs neither the build command nor an upload; with
\* the variable provided, rendering does not fail and the file named like
\* the template without its extension holds the substituted text.
C12_MissingVariableFails ==
    AppliedLocal =>
        \A n \in LocalTemplates :
            /\ MissingIn(n) =>
                  /\ last.err = MissingKeyError(LocalDir, n, fs[LocalDir].files[n].ref)
                  /\ \A k \in {"K", "N"} \ {fs[LocalDir].files[n].ref} :
                        last.err # MissingKeyError(LocalDir, n, k)
                  /\ ~Invoked
                  /\ ~Called(last.trace, "UploadLPK")
            /\ ProvidedIn(n) =>
                  /\ last.trace # <<"WalkDir">>
                  /\ TrimSuffix(n, resolveTemplateExtension(last.data.env))
                        \in DOMAIN fs[LocalDir].files
                  /\ fs[LocalDir].files[
                        TrimSuffix(n, resolveTemplateExtension(last.data.env))].lit
                        = fs[LocalDir].files[n].lit
                            \o collectEnvVars(last.data.env)[fs[LocalDir].files[n].ref]

\* An Apply met a template whose variable is not provided, and failed.
C12_Witness ==
    /\ AppliedLocal
    /\ \E n \in LocalTemplates : MissingIn(n)
    /\ last.err # ""
    /\ last.trace = <<"WalkDir">>

----------------------------------------------------------------------------
(* renderTemplateFiles on its own: calls on one directory, for the trees   *)
(* and env blocks below.                                                   *)

SiblingName == <<"c">>
J2Name == <<"c", ".", "j", "2">>
OtherName == <<"d">>

\* A file that is not a template although its text holds an action.
PlainK == Text("x=", "K", FALSE, "0644")

Plain == Text("x", "", FALSE, "0644")

\* The sets of files a directory starts with: each name is absent or holds
\* one of the texts listed for it.
RenderFiles ==
    { f \in UNION { [names -> {TemplateK, TemplateBad, Plain, PlainK}] :
                      names \in SUBSET {TemplateName, SiblingName, J2Name, OtherName} } :
        /\ TemplateName \in DOMAIN f => f[TemplateName] \in {TemplateK, TemplateBad}
        /\ SiblingName \in DOMAIN f => f[SiblingName] = Plain
        /\ J2Name \in DOMAIN f => f[J2Name] = TemplateK
        /\ OtherName \in DOMAIN f => f[OtherName] = PlainK }

\* The values of template_extension.
Extensions ==
    { <<"j", "2">>, <<".", "j", "2">>, <<" ", "j", "2", " ">>, <<>>, <<" ">>,
      <<".", "t", "m", "p", "l">> }

\* The env blocks: absent; template_extension null or unknown; each value
\* of template_extension, with K provided or not.
RenderEnvs ==
    { NoEnv, Env(TRUE, [k \in {"K"} |-> "v"], TRUE, <<>>) }
    \cup { Env(TRUE, v, FALSE, e) :
             v \in {NoVars, [k \in {"K"} |-> "v"]}, e \in Extensions }

InitRender ==
    /\ fs \in { [d \in {LocalDir} |-> Tree(M1, f, <<>>)] : f \in RenderFiles }
    /\ state = NoState
    /\ last = NoCall

\* A call of renderTemplateFiles as applyBuild makes it.
Render ==
    /\ \E env \in RenderEnvs :
        LET r == renderTemplateFiles(LocalDir, fs[LocalDir],
                                     resolveTemplateExtension(env),
                                     collectEnvVars(env))
        IN  /\ fs' = PutDir(fs, LocalDir, r.tree)
            /\ last' = Summary("render", Config(LocalSource, NoBuild, NoPublish, env),
                               NoState, r.err, <<"WalkDir">>,
                               r.tree # fs[LocalDir], LocalDir,
                               fs[LocalDir].manifest, "", FALSE, NoMeta, "n/a",
                               "none", "none", NoPrevious)
    /\ UNCHANGED state

NextRender == Render

SpecRender == InitRender /\ [][NextRender]_vars

\* The extension the last call rendered with.
RenderedExtension == resolveTemplateExtension(last.data.env)

\* The files of the directory before and after a step.
FilesBefore == fs[LocalDir].files
FilesAfter == fs'[LocalDir].files

\* File n is the same before and after the step: content and mode.
Untouched(n) == n \in DOMAIN FilesAfter /\ FilesAfter[n] = FilesBefore[n]

\* Name n is where a template of the directory is rendered to.
OutputOfTemplate(n, ext) ==
    \E t \in DOMAIN FilesBefore : HasSuffix(t, ext) /\ TrimSuffix(t, ext) = n

\* C13 as stated: a call of renderTemplateFiles leaves every file whose
\* name does not end with the template extension as it was, content and
\* mode, also when a template and the file named like it without the
\* extension both exist.
C13_NonTemplatesUntouched ==
    [][last'.op = "render" =>
          \A n \in DOMAIN FilesBefore :
              ~HasSuffix(n, RenderedExtension') => Untouched(n)]_vars

\* C13, amended: a call of renderTemplateFiles leaves every file as it was
\* whose name neither ends with the template extension nor is the name of
\* a template without the extension; a file that has such a name and
\* already exists keeps its mode.
C13_OnlyOutputsWritten ==
    [][last'.op = "render" =>
          \A n \in DOMAIN FilesBefore :
              ~HasSuffix(n, RenderedExtension') =>
                  IF OutputOfTemplate(n, RenderedExtension')
                  THEN /\ n \in DOMAIN FilesAfter
                       /\ FilesAfter[n].perm = FilesBefore[n].perm
                  ELSE Untouched(n)]_vars

\* A call rendered a template over the file that already stood at its
\* output name (it has kept its own mode), next to a file that is no
\* template.
C13_Witness ==
    /\ last.op = "render"
    /\ last.err = ""
    /\ last.fsChanged
    /\ TemplateName \in DOMAIN fs[LocalDir].files
    /\ OtherName \in DOMAIN fs[LocalDir].files
    /\ SiblingName \in DOMAIN fs[LocalDir].files
    /\ fs[LocalDir].files[SiblingName] = Text("k=v", "", FALSE, "0644")

\* An env block with the variables of the last call and the given value of
\* template_extension.
WithExtension(ext) == Env(TRUE, last.data.env.variables, FALSE, ext)

\* What rendering the directory as it is now under a template_extension
\* does: the error and the tree it leaves.
RenderUnder(ext) ==
    renderTemplateFiles(LocalDir, fs[LocalDir],
                        resolveTemplateExtension(WithExtension(ext)),
                        collectEnvVars(last.data.env))

----------------------------------------------------------------------------
(* The result of a successful applyBuild.                                  *)

\* The last call was a Create or an Update whose applyBuild returned a
\* model, which is the persisted state now.
Succeeded == Applied /\ last.err = "" /\ last.workdir # "" /\ state.exists

\* C15 as stated: after every successful Apply, whether it did not
\* publish, reused the prior upload or uploaded, the ID of the result is
\* "{AppID}-{Version}-{SHA256}" of the AppID, Version and SHA256 of that
\* result.
C15_IdFromResultFields ==
    Succeeded =>
        state.ID = Sprintf3(ValueString(state.AppID), ValueString(state.Version),
                            ValueString(state.SHA256))

\* C16 as stated: after every successful Apply the SHA256 of the result is
\* the hash runBuild computed from the bytes of the file at the artifact
\* path (the hash of the file at LocalPath while that file is on disk),
\* also when the artifact was uploaded and the registry returned a sha256
\* of its own.
C16_HashOfArtifactBytes ==
    Succeeded =>
        /\ state.SHA256 = last.meta.SHA256
        /\ Reported(fs, state) =>
              state.SHA256 = computeSHA(ReadLpk(fs, ValueString(state.LocalPath)))

----------------------------------------------------------------------------
(* The build command's output.                                             *)

\* The step is an applyBuild on the local source directory in which the
\* build command was invoked, exited 0 (findLatestLPK was reached) and
\* wrote no .lpk file: the directory holds as many .lpk files as before.
BuiltNothing ==
    /\ ApplyStep
    /\ last'.workdir = LocalDir
    /\ Called(last'.trace, ShC(last'.data.build))
    /\ Called(last'.trace, "Glob")
    /\ Len(fs'[LocalDir].lpk) = Len(fs[LocalDir].lpk)

\* C17 as stated: when the build command is invoked, exits 0 and writes no
\* .lpk file, the call fails with "no .lpk artifact produced", reports no
\* artifact path, leaves no file at the canonical artifact path and makes
\* no upload, whatever .lpk files earlier runs left in the directory.
C17_NoOutputFails ==
    [][BuiltNothing =>
          /\ last'.err = "no .lpk artifact produced"
          /\ state' = state
          /\ ~Cached(fs', last'.artifactPath)
          /\ ~Called(last'.trace, "UploadLPK")]_vars

----------------------------------------------------------------------------
(* The manifest checks of runBuild.                                        *)

\* The last call was an applyBuild that reached runBuild.
ReachedBuild == Applied /\ Called(last.trace, "readManifest")

\* The errors runBuild returns for a manifest it does not accept.
ManifestErrors ==
    { "read manifest: no such file", "read manifest: yaml",
      "manifest name must be set", "manifest version must be set" }

\* C18: when lzc-manifest.yml is missing, is not YAML, or has an empty or
\* absent name or version, runBuild fails with the manifest's error before
\* it looks for the artifact: no Stat, no build command, no upload, no
\* new state.  A manifest whose appid alone is empty or absent passes the
\* checks: runBuild goes on to the cache check.
C18_BadManifestFailsEarly ==
    ReachedBuild =>
        /\ (~last.manifest.present \/ ~last.manifest.wellformed) =>
              last.err \in {"read manifest: no such file", "read manifest: yaml"}
        /\ (last.manifest.present /\ last.manifest.wellformed
               /\ last.manifest.name = "") =>
              last.err = "manifest name must be set"
        /\ (last.manifest.present /\ last.manifest.wellformed
               /\ last.manifest.name # "" /\ last.manifest.version = "") =>
              last.err = "manifest version must be set"
        /\ last.err \in ManifestErrors =>
              /\ ~Called(last.trace, "Stat")
              /\ ~Invoked
              /\ ~Called(last.trace, "UploadLPK")
              /\ state = last.prior
        /\ (last.manifest.present /\ last.manifest.wellformed
               /\ last.manifest.name # "" /\ last.manifest.version # "") =>
              /\ last.err \notin ManifestErrors
              /\ Called(last.trace, "Stat")

\* An Apply on a manifest without a version failed at the manifest, and an
\* earlier one on a manifest without an appid had succeeded.
C18_Witness ==
    /\ ReachedBuild
    /\ last.manifest = MNoVersion
    /\ last.err = "manifest version must be set"
    /\ state.exists
    /\ state.AppID = ""

----------------------------------------------------------------------------
(* The publish switch.                                                     *)

\* The publish block of the last call has enabled = false.
PublishDisabled ==
    last.data.publish.present /\ last.data.publish.enabled = "false"

\* The publish block of the last call is absent or has no enabled flag.
PublishUnset ==
    ~last.data.publish.present \/ last.data.publish.enabled = "null"

\* C19: an Apply with publish.enabled = false never calls UploadLPK, and
\* its result has no download URL and no upload ID, whatever the prior
\* state holds; an Apply without a publish block or without the enabled
\* flag publishes: once runBuild has returned an artifact it reuses the
\* prior upload or calls UploadLPK.
C19_PublishSwitch ==
    Applied =>
        /\ PublishDisabled =>
              /\ ~Called(last.trace, "UploadLPK")
              /\ last.reuse = "n/a"
              /\ Succeeded =>
                    /\ ValueString(state.LPKURL) = ""
                    /\ ValueString(state.UploadID) = ""
        /\ (PublishUnset /\ BuildYielded) =>
              /\ shouldPublish(last.data.publish)
              /\ \/ last.reuse = "true" /\ ~Called(last.trace, "UploadLPK")
                 \/ last.reuse = "false" /\ Count(last.trace, "UploadLPK") = 1

\* An Update with publish.enabled = false was given a prior state with an
\* upload, and succeeded.
C19_Witness ==
    /\ last.op = "update"
    /\ PublishDisabled
    /\ PriorUpload
    /\ Succeeded
    /\ IsNull(state.UploadID)

----------------------------------------------------------------------------
(* prepareSource on its own: calls with local and git descriptors, each    *)
(* followed by the caller's cleanup.                                       *)

\* The subdirectories every clone holds besides its root.
RepoDirs == {"app"}

\* The values of git.subpath.
Subpaths == {Null, "", "app", "app/..", "missing", "..", "../.."}

\* The descriptors prepareSource is called with.
ResolveSources ==
    {LocalSource} \cup BadSources
    \cup { Source(NoLocal, Git(TRUE, "https://git/app", ref, sub)) :
             ref \in {Null, "main"}, sub \in Subpaths }

InitResolve ==
    /\ fs = [d \in {LocalDir} |-> Tree(M1, EmptyFiles, <<>>)]
    /\ state = NoState
    /\ last = NoCall

\* A call of prepareSource; the staging directory it made is left for the
\* caller to clean up.
Resolve ==
    /\ Idle
    /\ \E source \in ResolveSources :
        \E git \in GitRuns(source) :
            LET r == prepareSource(fs, source, git)
            IN  /\ fs' = r.fs
                /\ last' = Summary("resolve",
                                   Config(source, NoBuild, NoPublish, NoEnv),
                                   NoState, r.err, r.trace, r.fs # fs, r.workdir,
                                   NoManifest, "", FALSE, NoMeta, "n/a", "none",
                                   "none", NoPrevious)
    /\ UNCHANGED state

\* The caller is done with the working directory: it runs the cleanup it
\* was given, if any.
Cleanup ==
    /\ ~Idle
    /\ fs' = IF TmpDir \in DOMAIN fs THEN RemoveAll(fs, TmpDir) ELSE fs
    /\ last' = NoCall
    /\ UNCHANGED state

NextResolve == Resolve \/ Cleanup

SpecResolve == InitResolve /\ [][NextResolve]_vars

\* The last call was a prepareSource of a git descriptor with a subpath
\* that returned a working directory.
ResolvedSubpath ==
    /\ last.op = "resolve"
    /\ last.err = ""
    /\ last.data.source.git.present
    /\ ValueString(last.data.source.git.subpath) # ""

\* The directories of the checkout: repo/ and its subdirectories.
CheckoutDirs ==
    {Join(TmpDir, "repo")} \cup {Join(Join(TmpDir, "repo"), d) : d \in RepoDirs}

\* C20 as stated: every working directory that prepareSource returns for
\* a git descriptor with a subpath is a directory of the checkout; a
\* subpath that leads out of the checkout or to no directory is rejected.
C20_SubpathInsideCheckout ==
    ResolvedSubpath => last.workdir \in CheckoutDirs

----------------------------------------------------------------------------
(* commandEnvironment and the environment of the build command.            *)

\* An entry of os.Environ(): key=value, or a string without "=" (eq FALSE).
\* An entry with an empty key is a string that starts with "=".
EnvEntry(key, eq, value) == [key |-> key, eq |-> eq, value |-> value]

\* The string of an entry.
EntryString(e) == IF e.eq THEN e.key \o "=" \o e.value ELSE e.key

\* The keys of the model in the order of sort.Strings (byte order).
KeyOrder == <<"A", "HOME", "K", "PATH", "Z">>

\* sort.Strings(keys)
SortStrings(keys) == SelectSeq(KeyOrder, LAMBDA k : k \in keys)

\* strings.Index(pair, "=") > 0
HasKey(e) == e.eq /\ e.key # ""

\* The map commandEnvironment fills from os.Environ(): a later entry of a
\* key replaces an earlier one.
RECURSIVE EnvironMap(_, _)
EnvironMap(values, environ) ==
    IF environ = <<>> THEN values
    ELSE EnvironMap(
            IF HasKey(Head(environ))
            THEN [k \in DOMAIN values \cup {Head(environ).key} |->
                    IF k = Head(environ).key THEN Head(environ).value ELSE values[k]]
            ELSE values,
            Tail(environ))

\* An overlay in which the inherited value wins.
Overlay_inheritedWins(values, custom) ==
    [k \in DOMAIN values \cup DOMAIN custom |->
        IF k \in DOMAIN values THEN values[k] ELSE custom[k]]

\* for key, value := range custom { values[key] = value }
Overlay(values, custom) ==
    [k \in DOMAIN values \cup DOMAIN custom |->
        IF k \in DOMAIN custom THEN custom[k] ELSE values[k]]

\* commandEnvironment(custom) in a process whose os.Environ() is environ;
\* <<>> is nil.
commandEnvironment(custom, environ) ==
    IF DOMAIN custom = {} THEN <<>>
    ELSE LET values == Overlay(EnvironMap(NoVars, environ), custom)
             keys == SortStrings(DOMAIN values)
         IN  [i \in 1..Len(keys) |-> keys[i] \o "=" \o values[keys[i]]]

\* The environment the build command runs with: cmd.Env when runBuild sets
\* it, else the environment of the process.
CommandEnv(envVars, environ) ==
    IF DOMAIN envVars # {} THEN commandEnvironment(envVars, environ)
    ELSE [i \in 1..Len(environ) |-> EntryString(environ[i])]

\* The values a variable is given.
EnvValues == {"v", "w"}

\* The env.variables maps: values for some of A, K and Z, or null.
CustomVariables ==
    UNION { [keys -> EnvValues \cup {Null}] : keys \in SUBSET {"A", "K", "Z"} }

\* What os.Environ() returns in the processes of the model.
Environs ==
    { <<>>,
      <<EnvEntry("PATH", TRUE, "/bin"), EnvEntry("HOME", TRUE, "/root")>>,
      <<EnvEntry("Z", TRUE, "z"), EnvEntry("K", TRUE, "old"),
        EnvEntry("A", TRUE, "a")>>,
      <<EnvEntry("K", TRUE, "v"), EnvEntry("", TRUE, "x"),
        EnvEntry("HOME", FALSE, "")>> }

\* The summary of a start of the build command.
ExecSummary(data, environ, env) ==
    [op |-> "exec", data |-> data, environ |-> environ, env |-> env]

InitEnv ==
    /\ fs = [d \in {LocalDir} |-> Tree(M1, EmptyFiles, <<>>)]
    /\ state = NoState
    /\ last = NoCall

\* runBuild starts the build command in a process with some environment.
Exec ==
    /\ \E variables \in CustomVariables :
        \E environ \in Environs :
            last' = ExecSummary(
                        Config(LocalSource, NoBuild, NoPublish,
                               Env(TRUE, variables, TRUE, <<>>)),
                        environ,
                        CommandEnv(collectEnvVars(Env(TRUE, variables, TRUE, <<>>)),
                                   environ))
    /\ UNCHANGED <<fs, state>>

NextEnv == Exec

SpecEnv == InitEnv /\ [][NextEnv]_vars

\* The variables supplied to the last start of the command.
Supplied == collectEnvVars(last.data.env)

\* The inherited entries that have a key.
Inherited == {last.environ[i] : i \in {j \in 1..Len(last.environ) : HasKey(last.environ[j])}}

\* The positions of the command's environment that hold an entry of key k.
EntriesOf(k) ==
    {i \in 1..Len(last.env) :
        \E v \in EnvValues \cup {e.value : e \in Inherited} :
            last.env[i] = k \o "=" \o v}

\* The position of key k in KeyOrder.
KeyRank(k) == CHOOSE i \in 1..Len(KeyOrder) : KeyOrder[i] = k

\* C21: when a variable is supplied, the build command's environment holds
\* one KEY=VALUE entry for every supplied key and every inherited key and
\* no other entry; a supplied key has the supplied value, an inherited key
\* that is not supplied has its inherited value, and the entries are in
\* ascending order of their keys.  When no variable is supplied, the
\* command's environment is the environment of the process.
C21_EnvironmentOverlay ==
    last.op = "exec" =>
        IF DOMAIN Supplied = {}
        THEN last.env = [i \in 1..Len(last.environ) |-> EntryString(last.environ[i])]
        ELSE /\ \A k \in DOMAIN Supplied :
                    /\ Cardinality(EntriesOf(k)) = 1
                    /\ \E i \in EntriesOf(k) : last.env[i] = k \o "=" \o Supplied[k]
             /\ \A e \in Inherited :
                    e.key \notin DOMAIN Supplied =>
                        /\ Cardinality(EntriesOf(e.key)) = 1
                        /\ \E i \in EntriesOf(e.key) :
                              last.env[i] = e.key \o "=" \o e.value
             /\ Len(last.env)
                    = Cardinality(DOMAIN Supplied \cup {e.key : e \in Inherited})
             /\ \A k1, k2 \in DOMAIN Supplied \cup {e.key : e \in Inherited} :
                    KeyRank(k1) < KeyRank(k2) =>
                        \A i \in EntriesOf(k1), j \in EntriesOf(k2) : i < j

\* The command was started with K supplied in a process that has its own
\* K and other keys.
C21_Witness ==
    /\ last.op = "exec"
    /\ "K" \in DOMAIN Supplied
    /\ Supplied["K"] = "w"
    /\ \E e \in Inherited : e.key = "K" /\ e.value = "old"
    /\ \E e \in Inherited : e.key = "Z"
    /\ Len(last.env) = 3

----------------------------------------------------------------------------
(* The lcmd_app resource: AppResource and the client calls it makes.  In   *)
(* this specification `state` is the persisted state of an lcmd_app        *)
(* resource and `last` the summary of the last call of one of its          *)
(* handlers: the requests the client sent, in order.                       *)

\* lpk_url, appid and ephemeral of LpkResourceModel; a types.Bool is
\* "null", "true" or "false".
AppModel(exists, lpkUrl, appid, ephemeral) ==
    [exists |-> exists, LpkUrl |-> lpkUrl, Appid |-> appid, Ephemeral |-> ephemeral]

NoApp == AppModel(FALSE, Null, Null, "null")

\* types.Bool.ValueBool(): false for null.
ValueBool(b) == b = "true"

\* fmt.Sprintf("%t", b)
FormatBool(b) == IF b THEN "true" ELSE "false"

stringOrNull(val) == IF val = "" THEN Null ELSE val

\* What a client call did: the request it sent (none when the user is not
\* configured), the error, and for InstallApp and GetApp the app's id.
ClientResult(err, requests, appID) ==
    [err |-> err, requests |-> requests, appID |-> appID]

\* A DeleteApp that asks to clear the data whatever it is told.
DeleteApp_alwaysClear(user, appID, clearData, answer) ==
    IF user = "" THEN ClientResult("user uid is not configured", <<>>, "")
    ELSE ClientResult(IF answer = "ok" THEN "" ELSE answer,
                      <<[call |-> "DELETE /v1/apps/" \o appID, clear_data |-> "true"]>>,
                      "")

\* LcmdClient.DeleteApp: DELETE /v1/apps/{appID}?uid=..&clear_data=..;
\* `answer` is the server's: "ok", or the error.
DeleteApp(user, appID, clearData, answer) ==
    IF user = "" THEN ClientResult("user uid is not configured", <<>>, "")
    ELSE ClientResult(IF answer = "ok" THEN "" ELSE answer,
                      <<[call |-> "DELETE /v1/apps/" \o appID,
                         clear_data |-> FormatBool(clearData)]>>,
                      "")

\* LcmdClient.InstallApp: POST /v1/apps; the server answers with an error or
\* with the installed app.
InstallApp(user, lpkURL, ephemeral, answer) ==
    IF user = "" THEN ClientResult("user uid is not configured", <<>>, "")
    ELSE ClientResult(answer.err,
                      <<[call |-> "POST /v1/apps", clear_data |-> "n/a"]>>,
                      answer.appID)

\* LcmdClient.GetApp: GET /v1/apps/{appID}.
GetApp(user, appID, answer) ==
    IF user = "" THEN ClientResult("user uid is not configured", <<>>, "")
    ELSE ClientResult(answer.err,
                      <<[call |-> "GET /v1/apps/" \o appID, clear_data |-> "n/a"]>>,
                      answer.appID)

\* What a handler did: the error it reported, the state it leaves and the
\* requests sent.
AppResponse(err, newState, requests) ==
    [err |-> err, state |-> newState, requests |-> requests]

\* AppResource.Create
AppCreateResponse(user, plan, srv) ==
    LET app == InstallApp(user, ValueString(plan.LpkUrl), ValueBool(plan.Ephemeral),
                          srv.install)
    IN  IF app.err # ""
        THEN AppResponse("Unable to install LPK", NoApp, app.requests)
        ELSE AppResponse("", AppModel(TRUE, plan.LpkUrl, stringOrNull(app.appID),
                                      plan.Ephemeral),
                         app.requests)

\* AppResource.Read
AppReadResponse(user, prior, srv) ==
    IF IsNull(prior.Appid) \/ ValueString(prior.Appid) = ""
    THEN AppResponse("", NoApp, <<>>)
    ELSE LET app == GetApp(user, ValueString(prior.Appid), srv.get)
         IN  IF app.err = "not found" THEN AppResponse("", NoApp, app.requests)
             ELSE IF app.err # ""
             THEN AppResponse("QueryApplication failed", prior, app.requests)
             ELSE AppResponse("", AppModel(TRUE, prior.LpkUrl, stringOrNull(app.appID),
                                           prior.Ephemeral),
                              app.requests)

\* AppResource.Update
AppUpdateResponse(user, plan, prior, srv) ==
    IF ValueString(plan.LpkUrl) # ValueString(prior.LpkUrl)
    THEN LET uninstall ==
                 IF ~IsNull(prior.Appid) /\ ValueString(prior.Appid) # ""
                 THEN DeleteApp(user, ValueString(prior.Appid), FALSE, srv.delete)
                 ELSE ClientResult("", <<>>, "")
             app == InstallApp(user, ValueString(plan.LpkUrl),
                               ValueBool(plan.Ephemeral), srv.install)
         IN  IF uninstall.err # ""
             THEN AppResponse("Uninstall failed", prior, uninstall.requests)
             ELSE IF app.err # ""
             THEN AppResponse("Install failed", prior,
                              uninstall.requests \o app.requests)
             ELSE AppResponse("", AppModel(TRUE, plan.LpkUrl, stringOrNull(app.appID),
                                           FormatBool(ValueBool(plan.Ephemeral))),
                              uninstall.requests \o app.requests)
    ELSE AppResponse("", AppModel(TRUE, plan.LpkUrl, prior.Appid,
                                  FormatBool(ValueBool(plan.Ephemeral))),
                     <<>>)

\* AppResource.Delete
AppDeleteResponse(user, prior, srv) ==
    IF ~IsNull(prior.Appid) /\ ValueString(prior.Appid) # ""
    THEN LET uninstall == DeleteApp(user, ValueString(prior.Appid),
                                    ValueBool(prior.Ephemeral), srv.delete)
         IN  IF uninstall.err # ""
             THEN AppResponse("Unable to uninstall LPK", prior, uninstall.requests)
             ELSE AppResponse("", NoApp, uninstall.requests)
    ELSE AppResponse("", NoApp, <<>>)

\* The configurations of an lcmd_app resource: ephemeral has the default
\* false when it is not written.
AppPlans ==
    { AppModel(TRUE, url, Null, e) : url \in {"l1", "l2"}, e \in {"true", "false"} }

\* The answers of the server to the three calls.
AppServers ==
    { [install |-> i, get |-> g, delete |-> d] :
        i \in {[err |-> "", appID |-> "a1"], [err |-> "", appID |-> ""],
               [err |-> "api POST: 500", appID |-> ""]},
        g \in {[err |-> "", appID |-> "a1"], [err |-> "not found", appID |-> ""]},
        d \in {"ok", "not found", "api DELETE: 500"} }

\* LcmdClient.User of the configured provider.
AppUsers == {"u", ""}

AppSummary(op, plan, prior, r) ==
    [op |-> op, plan |-> plan, prior |-> prior, err |-> r.err,
     requests |-> r.requests]

\* No resource, or one that was imported: its ephemeral is null.
InitApp ==
    /\ fs = [d \in {LocalDir} |-> EmptyTree]
    /\ state \in {NoApp, AppModel(TRUE, "l1", "a1", "null")}
    /\ last = NoCall

AppCreate ==
    /\ Idle
    /\ ~state.exists
    /\ \E plan \in AppPlans, user \in AppUsers, srv \in AppServers :
        LET r == AppCreateResponse(user, plan, srv)
        IN  /\ state' = r.state
            /\ last' = AppSummary("create", plan, state, r)
    /\ UNCHANGED fs

AppRead ==
    /\ Idle
    /\ state.exists
    /\ \E user \in AppUsers, srv \in AppServers :
        LET r == AppReadResponse(user, state, srv)
        IN  /\ state' = r.state
            /\ last' = AppSummary("read", state, state, r)
    /\ UNCHANGED fs

AppUpdate ==
    /\ Idle
    /\ state.exists
    /\ \E plan \in AppPlans, user \in AppUsers, srv \in AppServers :
        LET r == AppUpdateResponse(user, plan, state, srv)
        IN  /\ state' = r.state
            /\ last' = AppSummary("update", plan, state, r)
    /\ UNCHANGED fs

AppDelete ==
    /\ Idle
    /\ state.exists
    /\ \E user \in AppUsers, srv \in AppServers :
        LET r == AppDeleteResponse(user, state, srv)
        IN  /\ state' = r.state
            /\ last' = AppSummary("delete", state, state, r)
    /\ UNCHANGED fs

NextApp == AppCreate \/ AppRead \/ AppUpdate \/ AppDelete \/ Return

SpecApp == InitApp /\ [][NextApp]_vars

\* The uninstall requests of the last call.
Uninstalls ==
    {i \in 1..Len(last.requests) :
        last.requests[i].call
            \in {"DELETE /v1/apps/" \o a : a \in {"a1", "a2"}}}

\* C22: an uninstall request carries clear_data=true only when it is sent
\* by Delete on a state whose ephemeral is true.  Delete sends clear_data
\* equal to the ephemeral flag of the state, the uninstall of an Update
\* whose lpk_url changed sends clear_data=false, and Create and Read send
\* no uninstall.
C22_ClearDataOnlyOnEphemeralDelete ==
    last.op \in {"create", "read", "update", "delete"} =>
        /\ \A i \in Uninstalls :
              /\ last.op \in {"update", "delete"}
              /\ last.op = "delete" =>
                    last.requests[i].clear_data
                        = FormatBool(last.prior.Ephemeral = "true")
              /\ last.op = "update" =>
                    /\ last.requests[i].clear_data = "false"
                    /\ last.plan.LpkUrl # last.prior.LpkUrl
        /\ Cardinality(Uninstalls) <= 1
        /\ (last.op = "delete" /\ last.err = "" /\ ValueString(last.prior.Appid) # "") =>
              Uninstalls # {}

\* A Delete of a state with ephemeral = true asked the server to clear the
\* data.
C22_Witness ==
    /\ last.op = "delete"
    /\ last.prior.Ephemeral = "true"
    /\ \E i \in Uninstalls : last.requests[i].clear_data = "true"
    /\ ~state.exists

----------------------------------------------------------------------------
(* Two calls of applyBuild that run at the same time on different source   *)
(* trees.  Each call goes through its stages one at a time (prepareSource, *)
(* renderTemplateFiles, runBuild, the publish step, the deferred cleanup)  *)
(* and the stages of the two calls interleave in every order.  In this     *)
(* specification `last` holds the two calls: the stage each has reached,   *)
(* its configuration, what the outside does for it, and what it has        *)
(* computed so far.                                                        *)

SecondDir == "/v"

LocalSource2 == Source(Local(TRUE, SecondDir), NoGit)

\* The filesystem the two calls start on.
SharedFs ==
    [d \in {LocalDir, SecondDir} |->
        IF d = LocalDir THEN Tree(M1, OneTemplate(TemplateK), <<>>)
        ELSE Tree(M2, EmptyFiles, <<>>)]

\* The configurations of the first call (on /w) and of the second (on /v,
\* or on a clone in its staging directory).
FirstConfigs ==
    { Config(LocalSource, Build(TRUE, "make"), Publish(TRUE, "true", "pkg", "9"), EnvK),
      Config(LocalSource, NoBuild, NoPublish, NoEnv) }

SecondConfigs ==
    { Config(LocalSource2, NoBuild, Publish(TRUE, "false", Null, Null), NoEnv),
      Config(GitSource(Null), Build(TRUE, "make"), NoPublish, EnvK) }

\* What the outside does for call i.
CallExternals(i, data) ==
    { External(g, b, r, "ok", "ok") :
        g \in IF data.source.git.present
              THEN { GitRun("ok", "fail", "ok", EmptyTree),
                     GitRun("ok", "ok", "ok", Tree(M1, OneTemplate(TemplateK), <<>>)) }
              ELSE {NoGitRun},
        b \in { BuildRun("fail", <<>>),
                BuildRun("ok", <<[name |-> "out.lpk", data |-> i]>>) },
        r \in { NoRegistry,
                Registry(FALSE, IF i = 1 THEN "u1" ELSE "u2", TRUE, "echo", "echo") } }

\* A call: the stage it is at, its inputs, the result of prepareSource
\* (without the filesystem), of runBuild (without the tree) and the error
\* and model it returns.
Call(pc, data, ext, src, built, err, result) ==
    [pc |-> pc, data |-> data, ext |-> ext, src |-> src, built |-> built,
     err |-> err, result |-> result]

NoSource == SourceResult("", "", "", FALSE, <<>>, <<>>)

NoBuilt == BuildResult("", "", NoMeta, EmptyTree, <<>>, "")

InitCalls ==
    /\ fs = SharedFs
    /\ state = NoState
    /\ \E d1 \in FirstConfigs, d2 \in SecondConfigs :
        \E e1 \in CallExternals(1, d1), e2 \in CallExternals(2, d2) :
            last = [op |-> "calls", order |-> <<>>,
                    call |-> <<Call("resolve", d1, e1, NoSource, NoBuilt, "", NoState),
                               Call("resolve", d2, e2, NoSource, NoBuilt, "", NoState)>>]

\* Call i takes a step that leaves it as c.
Stepped(i, c) ==
    last' = [last EXCEPT !.order = Append(@, i), !.call[i] = c]

\* prepareSource
CallResolve(i) ==
    LET c == last.call[i]
        r == prepareSource(fs, c.data.source, c.ext.git)
    IN  /\ c.pc = "resolve"
        /\ fs' = r.fs
        /\ Stepped(i, IF r.err # ""
                      THEN [c EXCEPT !.pc = "done", !.err = "source error: " \o r.err]
                      ELSE [c EXCEPT !.pc = "render", !.src = [r EXCEPT !.fs = <<>>]])

\* renderTemplateFiles
CallRender(i) ==
    LET c == last.call[i]
        r == renderTemplateFiles(c.src.workdir, fs[c.src.root],
                                 resolveTemplateExtension(c.data.env),
                                 collectEnvVars(c.data.env))
    IN  /\ c.pc = "render"
        /\ fs' = PutDir(fs, c.src.root, r.tree)
        /\ Stepped(i, IF r.err # "" THEN [c EXCEPT !.pc = "cleanup", !.err = r.err]
                      ELSE [c EXCEPT !.pc = "build"])

\* runBuild
CallBuild(i) ==
    LET c == last.call[i]
        b == runBuild(fs[c.src.root], c.src.workdir, c.data.build, c.data.publish,
                      collectEnvVars(c.data.env), c.ext.run)
    IN  /\ c.pc = "build"
        /\ fs' = PutDir(fs, c.src.root, b.tree)
        /\ Stepped(i, IF b.err # "" THEN [c EXCEPT !.pc = "cleanup", !.err = b.err]
                      ELSE [c EXCEPT !.pc = "publish",
                                     !.built = [b EXCEPT !.tree = EmptyTree]])

\* The rest of applyBuild up to its return: the publish step on the files
\* as they are now.
CallPublish(i) ==
    LET c == last.call[i]
        r == applyBuilt([c.src EXCEPT !.fs = fs], fs[c.src.root].manifest,
                        [c.built EXCEPT !.tree = fs[c.src.root]],
                        c.data, NoState, c.ext)
    IN  /\ c.pc = "publish"
        /\ Stepped(i, [c EXCEPT !.pc = "cleanup", !.err = r.err, !.result = r.result])
        /\ UNCHANGED fs

\* The deferred cleanup; applyBuild returns.
CallCleanup(i) ==
    LET c == last.call[i]
    IN  /\ c.pc = "cleanup"
        /\ fs' = cleanup(c.src, fs)
        /\ Stepped(i, [c EXCEPT !.pc = "done"])

ResolveStep == (\E i \in {1, 2} : CallResolve(i)) /\ UNCHANGED state

RenderStep == (\E i \in {1, 2} : CallRender(i)) /\ UNCHANGED state

BuildStep == (\E i \in {1, 2} : CallBuild(i)) /\ UNCHANGED state

PublishStep == (\E i \in {1, 2} : CallPublish(i)) /\ UNCHANGED state

CleanupStep == (\E i \in {1, 2} : CallCleanup(i)) /\ UNCHANGED state

NextCalls == ResolveStep \/ RenderStep \/ BuildStep \/ PublishStep \/ CleanupStep

SpecCalls == InitCalls /\ [][NextCalls]_vars

\* Call i run alone on the filesystem both calls started on.
Alone(i) == applyBuild(SharedFs, last.call[i].data, NoState, last.call[i].ext)

\* The directories call i works in.
DirsOf(i) ==
    IF last.call[i].data.source.git.present THEN {TmpDir}
    ELSE {ValueString(last.call[i].data.source.local.path)}

----------------------------------------------------------------------------
(* The order of the stages of one applyBuild, read off the calls it made.  *)

\* The stage a call belongs to: 1 prepareSource, 2 renderTemplateFiles,
\* 3 the manifest read of runBuild, 4 the cache check and the build,
\* 5 the upload, 6 the removal of the staging directory.
StageOf(call) ==
    CASE call \in {"MkdirTemp", "git clone", "git checkout"} -> 1
      [] call = "WalkDir" -> 2
      [] call = "readManifest" -> 3
      [] call = "UploadLPK" -> 5
      [] call = "RemoveAll" -> 6
      [] OTHER -> 4

\* The calls of a trace that are not removals of the staging directory
\* (prepareSource removes it itself when the clone or the checkout fails).
Forward(trace) == SelectSeq(trace, LAMBDA call : call # "RemoveAll")

\* C24: in every Create and Update the calls are made stage after stage:
\* the source is resolved before the walk that renders the templates, the
\* manifest is read after the walk, the cache check and the build command
\* come after the manifest was read, and UploadLPK is called after all of
\* them, when the artifact path was formed from the manifest hash and the
\* content hash of the artifact was computed.
C24_StagesInOrder ==
    Applied =>
        LET t == Forward(last.trace)
        IN  /\ \A i, j \in DOMAIN t : i < j => StageOf(t[i]) <= StageOf(t[j])
            /\ \A i \in DOMAIN t :
                  StageOf(t[i]) > 2 => Called(t, "WalkDir")
            /\ \A i \in DOMAIN t :
                  StageOf(t[i]) > 3 => Called(t, "readManifest")
            /\ Called(t, "WalkDir") /\ last.data.source.git.present
                  /\ ~last.data.source.local.present
                  => Called(t, "git clone")
            /\ Called(t, "UploadLPK") =>
                  /\ Called(t, "Stat")
                  /\ last.artifactPath # ""
                  /\ last.meta.SHA256 # ""
                  /\ ~last.data.source.git.present => Cached(fs, last.artifactPath)

\* An Update of a clone that rendered, read the manifest, ran the build
\* command, moved its output and uploaded it.
C24_Witness ==
    /\ Applied
    /\ Called(last.trace, "git clone")
    /\ Invoked
    /\ Called(last.trace, "Rename")
    /\ Called(last.trace, "UploadLPK")
    /\ last.err = ""

----------------------------------------------------------------------------
(* runBuild called again and again on one working directory whose manifest *)
(* and whose other source files are edited between the calls.  In this     *)
(* specification `last` holds the last call of runBuild: its arguments,    *)
(* the manifest bytes it found, whether a file was at the artifact path    *)
(* when it began, what it returned, which edits were made since, and the   *)
(* same for the call before it.                                            *)

\* The name of the file at the artifact path of a directory.
ArtifactName(tree) ==
    artifactBase(readManifest(tree), computeSHA(tree.manifest)) \o ".lpk"

\* The runs of the build command: those of BuildRuns, and runs that write
\* old.lpk or the file at the artifact path itself.
CacheRuns(tree, data) ==
    IF BuildExternals(tree, data) = {NoBuildRun} THEN {NoBuildRun}
    ELSE BuildRuns
         \cup { BuildRun("ok", <<[name |-> n, data |-> 1]>>) :
                  n \in {"old.lpk", ArtifactName(tree)} }

\* The contents the other source files and the rendered outputs may have.
SourceEdits == {EmptyFiles, OneTemplate(TemplateK)}

CacheCall(op, data, manifest, lpk, run, cached, r, edited, rewritten, prev) ==
    [op |-> op, data |-> data, manifest |-> manifest, lpk |-> lpk, run |-> run,
     cached |-> cached, r |-> r, edited |-> edited, rewritten |-> rewritten,
     prev |-> prev]

NoCacheCall ==
    CacheCall("none", NoConfig, NoManifest, <<>>, NoBuildRun, FALSE, NoBuilt, FALSE,
              FALSE, <<>>)

InitCache ==
    /\ fs \in { [d \in {LocalDir} |-> Tree(m, EmptyFiles, <<>>)] :
                   m \in {M1, M2, MNoVersion} }
    /\ state = NoState
    /\ last = NoCacheCall

CacheBuild ==
    /\ \E data \in BuildArgs :
        \E run \in CacheRuns(fs[LocalDir], data) :
            LET r == runBuild(fs[LocalDir], LocalDir, data.build, data.publish,
                              collectEnvVars(data.env), run)
            IN  /\ fs' = PutDir(fs, LocalDir, r.tree)
                /\ last' = CacheCall("build", data, fs[LocalDir].manifest,
                                     fs[LocalDir].lpk, run,
                                     Cached(fs, r.artifactPath),
                                     [r EXCEPT !.tree = EmptyTree], FALSE, FALSE,
                                     [last EXCEPT !.prev = <<>>])
    /\ UNCHANGED state

\* The author edits a source file other than the manifest, or a render
\* rewrites a template's output.
EditSource ==
    /\ last.op = "build"
    /\ \E f \in SourceEdits \ {fs[LocalDir].files} :
        fs' = PutDir(fs, LocalDir,
                     Tree(fs[LocalDir].manifest, f, fs[LocalDir].lpk))
    /\ last' = [last EXCEPT !.edited = TRUE]
    /\ UNCHANGED state

\* The author rewrites the manifest.
RewriteManifest ==
    /\ last.op = "build"
    /\ \E m \in {M1, M2, MNoVersion} \ {fs[LocalDir].manifest} :
        fs' = PutDir(fs, LocalDir,
                     Tree(m, fs[LocalDir].files, fs[LocalDir].lpk))
    /\ last' = [last EXCEPT !.rewritten = TRUE]
    /\ UNCHANGED state

NextCache == CacheBuild \/ EditSource \/ RewriteManifest

SpecCache == InitCache /\ [][NextCache]_vars

\* The call c of runBuild invoked the build command.
Ran(c) == Called(c.r.trace, ShC(c.data.build))

----------------------------------------------------------------------------
(* renderTemplateFiles on directories with two templates, c.tmpl and       *)
(* d.tmpl, each of which may parse and render or not, and the files c and  *)
(* d they are rendered to.                                                 *)

SecondTemplate == <<"d", ".", "t", "m", "p", "l">>

StopFiles ==
    { f \in UNION { [names -> {TemplateK, TemplateBad, Plain}] :
                      names \in SUBSET {TemplateName, SecondTemplate,
                                        SiblingName, OtherName} } :
        /\ SiblingName \in DOMAIN f => f[SiblingName] = Plain
        /\ OtherName \in DOMAIN f => f[OtherName] = Plain }

InitStop ==
    /\ fs \in { [d \in {LocalDir} |-> Tree(M1, f, <<>>)] : f \in StopFiles }
    /\ state = NoState
    /\ last = NoCall

SpecStop == InitStop /\ [][NextRender]_vars

\* The templates of the directory before the step, in the order of the walk.
TemplatesBefore(ext) ==
    SelectSeq(WalkOrder(DOMAIN FilesBefore), LAMBDA n : HasSuffix(n, ext))

\* Template n does not parse, or does not render with the given variables.
Fails(n, envVars) ==
    \/ FilesBefore[n].bad
    \/ Execute(Str(n), FilesBefore[n], envVars).err # <<>>

\* The file at name n is after the step as it was before it, or as absent.
Kept(n) ==
    IF n \in DOMAIN FilesBefore THEN Untouched(n) ELSE n \notin DOMAIN FilesAfter

\* C26: when a template fails to parse or to render, the call of
\* renderTemplateFiles reports an error, the file the failing template is
\* rendered to is as it was before, the templates the walk visited before
\* it have their complete output in their files, and the files of the
\* templates that come after it in the walk are as they were before.
C26_StopsAtFirstFailure ==
    [][last'.op = "render" =>
          LET ext == RenderedExtension'
              envVars == collectEnvVars(last'.data.env)
              t == TemplatesBefore(ext)
              failing == {i \in DOMAIN t : Fails(t[i], envVars)}
          IN  IF failing = {} THEN last'.err = ""
              ELSE LET first == CHOOSE i \in failing : \A j \in failing : i <= j
                   IN  /\ last'.err # ""
                       /\ \A i \in DOMAIN t :
                            LET dest == TrimSuffix(t[i], ext)
                            IN  IF i < first
                                THEN /\ dest \in DOMAIN FilesAfter
                                     /\ FilesAfter[dest].lit
                                          = Execute(Str(t[i]), FilesBefore[t[i]],
                                                    envVars).buf
                                     /\ FilesAfter[dest].ref = ""
                                ELSE Kept(dest)]_vars

\* A call rendered c.tmpl into c, then failed on d.tmpl, whose file d is
\* as it was.
C26_Witness ==
    /\ last.op = "render"
    /\ last.err # ""
    /\ last.fsChanged
    /\ TemplateName \in DOMAIN fs[LocalDir].files
    /\ SecondTemplate \in DOMAIN fs[LocalDir].files
    /\ fs[LocalDir].files[TemplateName] = TemplateK
    /\ fs[LocalDir].files[SecondTemplate] = TemplateBad
    /\ SiblingName \in DOMAIN fs[LocalDir].files
    /\ fs[LocalDir].files[SiblingName].lit = "k=v"
    /\ OtherName \in DOMAIN fs[LocalDir].files
    /\ fs[LocalDir].files[OtherName] = Plain

\* The .lpk files of the directory when the build command of the last call
\* had run, oldest first.
AfterCommand == WriteLpks(last.lpk, last.run.written)

\* The .lpk file of a list that is at a path, by name and content.
FileAt(lpk, path) ==
    {f \in {lpk[i] : i \in DOMAIN lpk} : Join(LocalDir, f.name) = path}

\* C27: when runBuild found no file at the artifact path and the build
\* command exited 0 with at least one .lpk file in the directory, the call
\* succeeds, the file at the artifact path afterwards has the content of
\* the most recently modified .lpk file, that file is no longer found under
\* its own name unless it was written at the artifact path, and every other
\* .lpk file is where it was with the content it had.
C27_NewestMoved ==
    (/\ last.op = "build"
     /\ Ran(last)
     /\ last.run.exit = "ok"
     /\ AfterCommand # <<>>)
    => LET newest == AfterCommand[Len(AfterCommand)]
           after == fs[LocalDir].lpk
       IN  /\ last.r.err = ""
           /\ ~last.cached
           /\ \E f \in FileAt(after, last.r.artifactPath) : f.data = newest.data
           /\ Join(LocalDir, newest.name) # last.r.artifactPath
                 => \A i \in DOMAIN after : after[i].name # newest.name
           /\ \A i \in 1..(Len(AfterCommand) - 1) :
                 \E j \in DOMAIN after : after[j] = AfterCommand[i]
           /\ Len(after) = Len(AfterCommand)

\* The build command wrote out.lpk next to the artifact of an earlier
\* manifest; out.lpk was moved to the artifact path.
C27_Witness ==
    /\ last.op = "build"
    /\ Ran(last)
    /\ last.r.err = ""
    /\ Called(last.r.trace, "Rename")
    /\ Len(last.lpk) >= 1
    /\ last.run.written # <<>>
    /\ last.run.written[1].name = "out.lpk"
    /\ Len(fs[LocalDir].lpk) = 2
    /\ fs[LocalDir].lpk[2].name # "out.lpk"

----------------------------------------------------------------------------
(* The order of the two teardown steps of Delete.                          *)

\* C28: a Delete leaves the resource out of the state only when neither
\* DeleteLPK nor os.Remove failed with an error it does not tolerate.
\* DeleteLPK is called before os.Remove.  When DeleteLPK fails with an
\* error other than not-found, Delete reports it, does not call os.Remove,
\* leaves the files alone and keeps the prior state; when os.Remove fails
\* with an error other than a missing file, Delete reports it and keeps the
\* prior state.
C28_StateKeptOnFailure ==
    last.op = "delete" =>
        /\ ~state.exists =>
              /\ last.err = ""
              /\ last.del # "fail"
              /\ last.rm # "fail"
        /\ ValueString(last.prior.UploadID) # "" =>
              /\ last.trace # <<>>
              /\ last.trace[1] = "DeleteLPK"
        /\ \A i \in DOMAIN last.trace :
              last.trace[i] = "DeleteLPK" => i = 1
        /\ last.del = "fail" =>
              /\ last.err = "Delete upload failed"
              /\ ~Called(last.trace, "Remove")
              /\ ~last.fsChanged
              /\ state = last.prior
        /\ last.rm = "fail" =>
              /\ last.err = "Remove artifact failed"
              /\ last.trace[Len(last.trace)] = "Remove"
              /\ ~last.fsChanged
              /\ state = last.prior

\* DeleteLPK failed for a resource whose artifact file is on disk: the
\* file and the state are still there.
C28_Witness ==
    /\ last.op = "delete"
    /\ last.del = "fail"
    /\ last.trace = <<"DeleteLPK">>
    /\ state.exists
    /\ Cached(fs, ValueString(state.LocalPath))

----------------------------------------------------------------------------
(* The data source: LPKBuildDataSource.Read.  Its prepareSource, runBuild  *)
(* and helper functions are copies of the resource's and are modelled by   *)
(* the same operators; Read itself is modelled here, statement by          *)
(* statement.  A result holds the summary and the detail of the error      *)
(* diagnostic ("" when there is none), the state that was set, the         *)
(* filesystem and the calls.                                               *)

ReadResult(summary, detail, result, fsys, trace) ==
    [err |-> summary, detail |-> detail, result |-> result, fs |-> fsys,
     trace |-> trace]

\* Read returns after runBuild: the deferred cleanup runs last.
readReturn(src, tree, trace, summary, detail, result) ==
    ReadResult(summary, detail, result, cleanup(src, PutDir(src.fs, src.root, tree)),
               src.trace \o <<"WalkDir">> \o trace \o cleanupTrace(src))

\* A Read that keeps the download URL and the upload id to itself.
readPublished_noRecord(src, built, upload) ==
    readReturn(src, built.tree, built.trace \o <<"UploadLPK">>,
               IF upload.err # "" THEN "Upload error" ELSE "", upload.err,
               IF upload.err # "" THEN NoState
               ELSE Model(TRUE,
                          Sprintf3(built.meta.AppID, built.meta.Version,
                                   built.meta.SHA256),
                          Null, built.meta.SHA256, built.meta.AppID,
                          built.meta.Version, built.lpkPath, Null))

\* Read from the answer `upload` of UploadLPK on.
readPublished(src, built, upload) ==
    IF upload.err # ""
    THEN readReturn(src, built.tree, built.trace \o <<"UploadLPK">>,
                    "Upload error", upload.err, NoState)
    ELSE readReturn(src, built.tree, built.trace \o <<"UploadLPK">>, "", "",
                    Model(TRUE,
                          Sprintf3(built.meta.AppID, built.meta.Version,
                                   built.meta.SHA256),
                          upload.DownloadURL,
                          IF upload.SHA256 # "" THEN upload.SHA256
                          ELSE built.meta.SHA256,
                          built.meta.AppID,
                          IF upload.Version # "" THEN upload.Version
                          ELSE built.meta.Version,
                          built.lpkPath, upload.ID))

\* Read from the return of runBuild on.
readBuilt(src, built, data, ext) ==
    IF built.err # ""
    THEN readReturn(src, built.tree, built.trace, "Build error", built.err, NoState)
    ELSE IF ~shouldPublish(data.publish)
    THEN readReturn(src, built.tree, built.trace, "", "",
                    Model(TRUE,
                          Sprintf3(built.meta.AppID, built.meta.Version,
                                   built.meta.SHA256),
                          Null, built.meta.SHA256, built.meta.AppID,
                          built.meta.Version, built.lpkPath, Null))
    ELSE readPublished(src, built,
                       UploadLPK(ext.reg, uploadName(data, built.meta),
                                 uploadVersion(data, built.meta),
                                 ReadLpk(PutDir(src.fs, src.root, built.tree),
                                         built.lpkPath)))

\* Read from the return of renderTemplateFiles on.
readRendered(src, rendered, data, ext) ==
    IF rendered.err # ""
    THEN readReturn(src, rendered.tree, <<>>, "Template error", rendered.err, NoState)
    ELSE readBuilt(src,
                   runBuild(rendered.tree, src.workdir, data.build, data.publish,
                            collectEnvVars(data.env), ext.run),
                   data, ext)

\* Read from the return of prepareSource on.
readSource(src, data, ext) ==
    IF src.err # ""
    THEN ReadResult("Source error", src.err, NoState, src.fs, src.trace)
    ELSE readRendered(src,
                      renderTemplateFiles(src.workdir, src.fs[src.root],
                                          resolveTemplateExtension(data.env),
                                          collectEnvVars(data.env)),
                      data, ext)

dataSourceRead(fsys, data, ext) ==
    readSource(prepareSource(fsys, data.source, ext.git), data, ext)

(* In this specification `last` holds a Read of the data source next to    *)
(* what the resource's applyBuild does, without prior state, with the same *)
(* configuration, on the same filesystem and with the same answers of the  *)
(* outside.                                                                *)
ReadSummary(op, data, read, apply) ==
    [op |-> op, data |-> data, read |-> read, apply |-> apply]

\* What is compared of a result: the error, the state, the calls, and the
\* filesystem left.
Outcome(r) == [err |-> r.err, result |-> r.result, trace |-> r.trace, fs |-> r.fs]

DataRead ==
    /\ Idle
    /\ \E data \in {c \in Configs : ConfigValidators(c.source) = ""} :
        \E ext \in ApplyExternals(fs, data, NoState) :
            LET d == dataSourceRead(fs, data, ext)
            IN  /\ fs' = d.fs
                /\ last' = ReadSummary("read", data, Outcome(d),
                                       Outcome(applyBuild(fs, data, NoState, ext)))
    /\ UNCHANGED state

NextRead == DataRead \/ Return \/ EditManifest

SpecRead == Init /\ [][NextRead]_vars

\* The calls of the build command and of UploadLPK in a trace, in order.
BuildAndUploadCalls(trace) ==
    SelectSeq(trace, LAMBDA call : call = "UploadLPK" \/ call = ShC(last.data.build))

\* C29: a Read of the data source and an applyBuild of the resource without
\* prior state, given the same configuration, filesystem and answers, make
\* the same calls of the build command and of UploadLPK in the same order,
\* fail in the same cases, return the same id, artifact path, appID,
\* version, sha256, download URL and upload id, and leave the same files.
C29_ReadAgreesWithApply ==
    last.op = "read" =>
        /\ BuildAndUploadCalls(last.read.trace) = BuildAndUploadCalls(last.apply.trace)
        /\ last.read.trace = last.apply.trace
        /\ (last.read.err # "") <=> (last.apply.err # "")
        /\ last.read.result = last.apply.result
        /\ last.read.fs = last.apply.fs

\* A Read ran the build command, uploaded and returned an upload id.
C29_Witness ==
    /\ last.op = "read"
    /\ last.read.err = ""
    /\ BuildAndUploadCalls(last.read.trace) = <<"sh -c make", "UploadLPK">>
    /\ last.read.result.exists
    /\ last.read.result.UploadID = "u1"
    /\ last.apply.result.UploadID = "u1"

====
